---- MODULE Spec2Model ----
(***************************************************************************)
(* A model of the eNet client core (YoloDev/enet-rs):                      *)
(*   - the Command Task (crates/client/src/cmd.rs), its caller and the     *)
(*     gateway end of the command connection            (specification Spec) *)
(*   - the Event Task (crates/client/src/evt.rs) next to the Command Task  *)
(*     under a client that may be dropped          (specification SpecClient) *)
(*   - the framing decoder (crates/proto/src/enc/decoder.rs) fed a chunked *)
(*     byte stream                                 (specification SpecDec) *)
(*   - the facade EnetClient::set_values over both tasks                   *)
(*                                              (specification SpecFacade) *)
(*   - the bootstrap EnetClient::new (crates/client/src/lib.rs)            *)
(*                                                 (specification SpecNew) *)
(*   - the Event Task on its own, with its clock   (specification SpecEvt) *)
(*   - single calls of the functions of the value types (dev.rs, proto)    *)
(*                                                 (specification SpecVal) *)
(***************************************************************************)
EXTENDS Integers, Sequences, FiniteSets, TLC

VARIABLES
  \* ---- Command Task (struct CommandActor) ----
  cmdPc,              \* "running" | "exited": the task is in run()'s loop or has returned
  conn,               \* CommandActor.conn: "none", or the connection, named by where it
                      \* was opened: "initial" (CommandHandler::new), "reopened" (handle_cmd)
  response_listener,  \* 0 (None) or the id of the request whose ResponseListener is held
  mailbox,            \* the mpsc channel CommandActor.recv: queued request ids
  idle,               \* seconds the 15 s sleep of the current select has been running
  last,               \* the handler the Command Task ran last
  \* ---- the caller (CommandHandler::send) and its requests ----
  callerPc,           \* 0: no send() in progress; r: awaiting the oneshot receiver of r
  reqLeft,            \* requests the caller may still issue
  senderDropped,      \* the EnetClient (both mailbox senders) has been dropped
  kind,               \* kind[r]: the ResponseListener variant of request r
  chan,               \* chan[r]: the oneshot channel of request r
  rx,                 \* rx[r]: the oneshot receiver of request r
  \* ---- the gateway end of the command connection ----
  gwIn,               \* requests written to the socket the gateway has not answered
  wire,               \* inbound stream of the socket: responses, then maybe a failure
  pushes,             \* unsolicited frames the gateway has sent
  \* ---- Event Task (struct EventActor) ----
  evtPc,              \* "main" | "steady" | "backoff" | "exited" | "panicked"
  boLeft,             \* intervals the backoff still yields before next_backoff() is None
  evtFrames,          \* inbound events the gateway may still produce
  evtLast,            \* the step the Event Task took last
  evtConn,            \* event connections main() has opened so far
  subscribed,         \* items of the ITEM_VALUE_SIGN_IN_REQ sent on the connection held
  elapsed,            \* main(): seconds since `then`, the time of the last subscription
  \* ---- framing decoder (struct EnetDecoder) fed by a framed reader ----
  frames,             \* the frame bodies that were encoded
  stream,             \* encoded bytes not yet appended to the buffer
  buf,                \* the BytesMut buffer
  next_index,         \* EnetDecoder.next_index
  out,                \* what decode has returned so far: frames, or a decoder error
  decPc,              \* "read" | "decode" | "failed" | "off"
  \* ---- the facade (EnetClient::set_values) and the device streams ----
  svVals,             \* svVals[r]: the Vec<ItemSetValue> of the set_values call r
  svResult,           \* svResult[r]: what set_values call r returned ("none": not yet)
  evtMailbox,         \* the unbounded mpsc channel EventActor.recv: queued SetStates
  stState,            \* stState[i]: value of the state stream of the writer keyed i
  stBright,           \* stBright[i]: value of the brightness stream of the writer keyed i
  seen,               \* seen[i]: the states written to the state stream of writer i
  \* ---- EnetClient::new ----
  bootPc,             \* the step EnetClient::new is at, "done", "failed" or "panicked"
  bootLog,            \* the steps EnetClient::new has performed, in order
  channel_types,      \* GetChannelInfoAllRes.devices
  items,              \* ProjectListRes.items
  inventory,          \* the (writer, device) pairs built, as [index, number, kind]
  \* ---- one call of a function of the value types (dev.rs, crates/proto) ----
  callFn,             \* the function called, "off" when none is
  callArg,            \* its argument
  callRet             \* <<>> before the call returns, then <<what it returned>>

cmdVars == <<cmdPc, conn, response_listener, mailbox, idle, last, callerPc, reqLeft,
             kind, chan, rx, gwIn, wire, pushes>>
evtVars == <<evtPc, boLeft, evtFrames, evtLast, evtConn, subscribed, elapsed>>
decVars == <<frames, stream, buf, next_index, out, decPc>>
facVars == <<svVals, svResult, evtMailbox, stState, stBright, seen>>
bootVars == <<bootPc, bootLog, channel_types, items, inventory>>
valVars == <<callFn, callArg, callRet>>
vars == <<cmdVars, senderDropped, evtVars, decVars, facVars, bootVars, valVars>>

----------------------------------------------------------------------------
(* Bounds of the model *)

\* requests the caller issues in specification Spec
MaxReq == 2
\* requests the caller issues in specification SpecClient
MaxReqClient == 1
\* unsolicited frames the gateway sends on the command connection
MaxPush == 1
\* seconds that pass in one step of the clock
TickSecs == 5
\* intervals the Event Task's backoff yields before next_backoff() returns None
MaxBackoff == 2
\* inbound frames and failures the gateway produces on the event connection
MaxEvtFrames == 2
\* frames encoded into the decoder's input stream
MaxFrames == 2
\* bytes of a frame body
MaxBody == 1
\* items of a project
MaxItems == 3
\* seconds by which the clock of the Event Task advances in one step
EvtTickSecs == 300
\* connections the gateway accepts from the Event Task
MaxEvtConn == 2
\* longest string handed to DeviceBrightness::from_str
MaxStrLen == 4
\* longest VALUE string of an update entry handed to update_values_from_enet
MaxValueLen == 3

(* Program constants *)

\* Duration::from_secs(15) of the idle sleep
IdleSecs == 15
\* mpsc::channel(10)
MailboxCap == 10
\* the bytes of DELIMETER = "\r\n\r\n"
CR == 13
LF == 10
\* the re-subscribe period: `Duration::from_secs(60 * 5)`
ResubscribeSecs == 300
\* the channel type of a real device: `== Some(&1)`
DeviceChannel == 1
\* DeviceBrightness::MIN, DeviceBrightness::MAX
BrightnessMin == 0
BrightnessMax == 100
\* the largest value of the u8 accumulator of DeviceBrightness::from_str
U8Max == 255

Reqs == 1..MaxReq

\* the variants of ResponseListener (define_response_listener!)
ListenerKinds == {"Version", "GetChannelInfoAll", "GetProject", "ItemValue"}

\* the kinds of request the modelled caller issues
CallKinds == {"Version", "ItemValue"}

\* the Response variant a ResponseListener variant converts from (try_into!)
ResKindOf(k) ==
  CASE k = "Version" -> "Version"
    [] k = "GetChannelInfoAll" -> "GetChannelInfoAll"
    [] k = "GetProject" -> "ProjectList"
    [] k = "ItemValue" -> "ItemValue"

\* kinds of frame the gateway sends unasked on the command connection
PushKinds == {"ItemUpdate"}

NoRes == [kind |-> "none", for |-> 0, conn |-> "none"]
\* the element of the inbound stream at which recv() fails (EOF, decode or IO error)
RecvErr == [kind |-> "RecvError", for |-> 0, conn |-> "none"]

\* values of a oneshot channel
Empty == [t |-> "None", res |-> NoRes]
Pending == [t |-> "Pending", res |-> NoRes]
\* the oneshot sender was dropped without a send
Dropped == [t |-> "Dropped", res |-> NoRes]
OkOf(p) == [t |-> "Ok", res |-> p]
ErrOf(e) == [t |-> e, res |-> NoRes]
WrongResponse(p) == [t |-> "WrongResponse", res |-> p]

----------------------------------------------------------------------------
(* The oneshot channel between CommandHandler::send and the Command Task *)

\* dropping the Sender of request r (r = 0: there is none) without a send
DropSender(c, r) ==
  IF r # 0 /\ c[r] = Pending THEN [c EXCEPT ![r] = Dropped] ELSE c

RECURSIVE DropSenders(_, _)
\* dropping the messages still queued in the mailbox drops their senders
DropSenders(c, q) ==
  IF q = <<>> THEN c ELSE DropSenders(DropSender(c, Head(q)), Tail(q))

\* sender.send(v): delivered when the receiver is alive; the sender is consumed
SendOn(c, r, v) ==
  IF rx[r] = "alive" /\ c[r] = Pending THEN [c EXCEPT ![r] = v] ELSE DropSender(c, r)

\* what `receiver.await??` makes of the channel's final value: a dropped sender is
\* oneshot::error::RecvError, which converts to CommandError::NoResponse
OutcomeOf(c) == IF c = Dropped THEN "NoResponse" ELSE c.t

\* what CommandHandler::send has returned to the caller of r
ResultOf(r) == IF rx[r] # "done" THEN "none" ELSE OutcomeOf(chan[r])

\* the id of the next request
NextId == 1 + Cardinality({q \in Reqs : rx[q] # "none"})

----------------------------------------------------------------------------
(* The caller: CommandHandler::send, and the drop of the EnetClient *)

\* a request is created and put in the mailbox; the send fails when the task is gone
CallerSend(k) ==
  /\ callerPc = 0 /\ reqLeft > 0 /\ ~senderDropped /\ NextId \in Reqs
  /\ LET r == NextId IN
       /\ kind' = [kind EXCEPT ![r] = k]
       /\ reqLeft' = reqLeft - 1
       /\ IF cmdPc = "exited"
            THEN /\ chan' = [chan EXCEPT ![r] = ErrOf("ConnectionClosed")]
                 /\ rx' = [rx EXCEPT ![r] = "done"]
                 /\ UNCHANGED <<callerPc, mailbox, valVars>>
            ELSE /\ Len(mailbox) < MailboxCap
                 /\ chan' = [chan EXCEPT ![r] = Pending]
                 /\ rx' = [rx EXCEPT ![r] = "alive"]
                 /\ mailbox' = Append(mailbox, r)
                 /\ callerPc' = r
  /\ UNCHANGED <<cmdPc, conn, response_listener, idle, last, gwIn, wire, pushes,
                 senderDropped, evtVars, decVars, facVars, bootVars, valVars>>

\* receiver.await resolves: a value was sent, or the sender was dropped
CallerComplete ==
  /\ callerPc # 0 /\ chan[callerPc] # Pending
  /\ rx' = [rx EXCEPT ![callerPc] = "done"]
  /\ callerPc' = 0
  /\ UNCHANGED <<cmdPc, conn, response_listener, mailbox, idle, last, reqLeft, kind, chan,
                 gwIn, wire, pushes, senderDropped, evtVars, decVars, facVars, bootVars, valVars>>

\* the caller stops waiting: the future of send() is dropped, and the receiver with it
CallerCancel ==
  /\ callerPc # 0
  /\ rx' = [rx EXCEPT ![callerPc] = "gone"]
  /\ callerPc' = 0
  /\ UNCHANGED <<cmdPc, conn, response_listener, mailbox, idle, last, reqLeft, kind, chan,
                 gwIn, wire, pushes, senderDropped, evtVars, decVars, facVars, bootVars, valVars>>

\* the EnetClient is dropped: both mailbox senders go, both mailboxes close
DropClient ==
  /\ callerPc = 0 /\ ~senderDropped
  /\ senderDropped' = TRUE
  /\ UNCHANGED <<cmdVars, evtVars, decVars, facVars, bootVars, valVars>>

----------------------------------------------------------------------------
(* The gateway end of the command connection *)

HasRecvErr == wire # <<>> /\ wire[Len(wire)] = RecvErr

\* the gateway answers the oldest request it has read
GatewayReply ==
  /\ conn # "none" /\ gwIn # <<>> /\ ~HasRecvErr
  /\ wire' = Append(wire, [kind |-> ResKindOf(kind[Head(gwIn)]), for |-> Head(gwIn),
                        conn |-> conn])
  /\ gwIn' = Tail(gwIn)
  /\ UNCHANGED <<cmdPc, conn, response_listener, mailbox, idle, last, callerPc, reqLeft,
                 kind, chan, rx, pushes, senderDropped, evtVars, decVars, facVars, bootVars, valVars>>

\* the gateway sends a frame nobody asked for
GatewayPush(k) ==
  /\ conn # "none" /\ pushes < MaxPush /\ ~HasRecvErr
  /\ wire' = Append(wire, [kind |-> k, for |-> 0 - (pushes + 1), conn |-> conn])
  /\ pushes' = pushes + 1
  /\ UNCHANGED <<cmdPc, conn, response_listener, mailbox, idle, last, callerPc, reqLeft,
                 kind, chan, rx, gwIn, senderDropped, evtVars, decVars, facVars, bootVars, valVars>>

\* the stream ends or breaks: the next recv() past the queued frames fails
GatewayClose ==
  /\ conn # "none" /\ ~HasRecvErr
  /\ wire' = Append(wire, RecvErr)
  /\ UNCHANGED <<cmdPc, conn, response_listener, mailbox, idle, last, callerPc, reqLeft,
                 kind, chan, rx, gwIn, pushes, senderDropped, evtVars, decVars, facVars, bootVars, valVars>>

----------------------------------------------------------------------------
(* The Command Task: CommandActor::run and its handlers *)

\* faulty variant: only the first variant of the listener macro converts its response
KindMatchesFirstVariantOnly(l, p) == kind[l] = "Version" /\ p.kind = "Version"

\* ResponseListener::accept: res.try_into() succeeds for the listener's own variant
KindMatches(l, p) == p.kind = ResKindOf(kind[l])

\* ResponseListener::accept followed by handle_enet's match on its result:
\* the channels after listener l was offered response p
Accept(l, p) ==
  IF KindMatches(l, p)
    THEN SendOn(chan, l, OkOf(p))
    ELSE SendOn(chan, l, WrongResponse(p))

\* faulty variant: the listener is put back: the task keeps waiting on the same slot
SlotKeptAfterEnet(l) == l

\* the slot after handle_enet offered the listener l a response:
\* response_listener.take() leaves None
SlotAfterEnet(l) == 0

\* faulty variant: the task ends without dropping the listeners it holds
TaskExitLeak(c, slot, lbl) ==
  /\ cmdPc' = "exited"
  /\ conn' = "none"
  /\ chan' = c
  /\ response_listener' = 0
  /\ mailbox' = <<>>
  /\ gwIn' = <<>>
  /\ wire' = <<>>
  /\ idle' = 0
  /\ last' = lbl

\* the task returns from run(): the actor is dropped, with its socket, its mailbox
\* receiver (and the messages queued in it) and the listener it holds
TaskExit(c, slot, lbl) ==
  /\ cmdPc' = "exited"
  /\ conn' = "none"
  /\ chan' = DropSenders(DropSender(c, slot), mailbox)
  /\ response_listener' = 0
  /\ mailbox' = <<>>
  /\ gwIn' = <<>>
  /\ wire' = <<>>
  /\ idle' = 0
  /\ last' = lbl

\* faulty variant: a response that finds no listener ends the task like a failed recv
HandleEnetNoListenerFails ==
  /\ cmdPc = "running" /\ conn # "none" /\ wire # <<>>
  /\ LET p == Head(wire)
         l == response_listener
     IN IF p = RecvErr \/ l = 0
          THEN TaskExit(IF l # 0 THEN SendOn(chan, l, ErrOf("ConnectionClosed")) ELSE chan,
                        0, "enet_err")
          ELSE /\ chan' = Accept(l, p)
               /\ response_listener' = SlotAfterEnet(l)
               /\ wire' = Tail(wire)
               /\ idle' = 0
               /\ last' = "enet"
               /\ UNCHANGED <<cmdPc, conn, mailbox, gwIn>>
  /\ UNCHANGED <<callerPc, reqLeft, kind, rx, pushes, senderDropped,
                 evtVars, decVars, facVars, bootVars, valVars>>

\* select! branch `enet = conn.recv()`, then handle_enet
HandleEnet ==
  /\ cmdPc = "running" /\ conn # "none" /\ wire # <<>>
  /\ LET p == Head(wire)
         l == response_listener
     IN IF p = RecvErr
          THEN \* recv() failed: the listener is failed, return Err(()), run() returns
               TaskExit(IF l # 0 THEN SendOn(chan, l, ErrOf("ConnectionClosed")) ELSE chan,
                        0, "enet_err")
          ELSE /\ chan' = (IF l = 0 THEN chan ELSE Accept(l, p))
               /\ response_listener' = (IF l = 0 THEN 0 ELSE SlotAfterEnet(l))
               /\ wire' = Tail(wire)
               /\ idle' = 0
               /\ last' = "enet"
               /\ UNCHANGED <<cmdPc, conn, mailbox, gwIn>>
  /\ UNCHANGED <<callerPc, reqLeft, kind, rx, pushes, senderDropped,
                 evtVars, decVars, facVars, bootVars, valVars>>

\* faulty variant: the slot keeps the listener of the request that could not be written
SlotKeptAfterSendError(slot) == slot

\* handle_cmd, conn.send failed: `self.response_listener.take()` leaves None
SlotAfterSendError(slot) == 0

\* handle_cmd: `self.response_listener = Some(res)` replaces (and drops) what the slot held
SlotOnSend(old, r) == r

\* faulty variant: a failed Connection::new is logged and handle_cmd returns Ok(()): the
\* task stays in its loop with the listener in the slot and no connection
HandleCmdStaysOnConnectError ==
  /\ cmdPc = "running" /\ mailbox # <<>>
  /\ LET r == Head(mailbox)
         old == response_listener
         slot == SlotOnSend(old, r)
         c1 == IF slot = old THEN chan ELSE DropSender(chan, old)
     IN \E connectOk, sendOk \in BOOLEAN :
          /\ mailbox' = Tail(mailbox)
          /\ idle' = 0
          /\ UNCHANGED cmdPc
          /\ IF conn = "none" /\ ~connectOk
               THEN /\ response_listener' = slot
                    /\ chan' = c1
                    /\ last' = "connect_failed"
                    /\ UNCHANGED <<conn, gwIn, wire>>
               ELSE /\ conn' = (IF conn = "none" THEN "reopened" ELSE conn)
                    /\ IF sendOk
                         THEN /\ response_listener' = slot
                              /\ chan' = c1
                              /\ gwIn' = Append(gwIn, r)
                              /\ last' = "send"
                              /\ UNCHANGED wire
                         ELSE /\ response_listener' = SlotAfterSendError(slot)
                              /\ chan' = SendOn(c1, slot, ErrOf("SendError"))
                              /\ last' = "send_failed"
                              /\ UNCHANGED <<gwIn, wire>>
  /\ UNCHANGED <<callerPc, reqLeft, kind, rx, pushes, senderDropped, evtVars, decVars, facVars, bootVars, valVars>>

\* select! branch `cmd = self.recv.recv()` (or the lone recv when conn is None) with
\* Some(ActorMessage::Send(req, res)), then handle_cmd
HandleCmd ==
  /\ cmdPc = "running" /\ mailbox # <<>>
  /\ LET r == Head(mailbox)
         old == response_listener
         slot == SlotOnSend(old, r)
         c1 == IF slot = old THEN chan ELSE DropSender(chan, old)
     IN \E connectOk, sendOk \in BOOLEAN :
          IF conn = "none" /\ ~connectOk
            THEN \* Connection::new failed: return Err(()), run() returns
                 /\ TaskExit(DropSender(c1, slot), 0, "connect_failed")
            ELSE /\ conn' = (IF conn = "none" THEN "reopened" ELSE conn)
                 /\ mailbox' = Tail(mailbox)
                 /\ idle' = 0
                 /\ UNCHANGED cmdPc
                 /\ IF sendOk
                      THEN /\ response_listener' = slot
                           /\ chan' = c1
                           /\ gwIn' = Append(gwIn, r)
                           /\ last' = "send"
                           /\ UNCHANGED wire
                      ELSE \* conn.send failed: the slot is taken and its listener failed
                           /\ response_listener' = SlotAfterSendError(slot)
                           /\ chan' = SendOn(c1, slot, ErrOf("SendError"))
                           /\ last' = "send_failed"
                           /\ UNCHANGED <<gwIn, wire>>
  /\ UNCHANGED <<callerPc, reqLeft, kind, rx, pushes, senderDropped, evtVars, decVars, facVars, bootVars, valVars>>

\* recv() on the mailbox returns None: every sender is gone and the queue is empty
HandleCmdNone ==
  /\ cmdPc = "running" /\ mailbox = <<>> /\ senderDropped
  /\ TaskExit(chan, response_listener, "closed")
  /\ UNCHANGED <<callerPc, reqLeft, kind, rx, pushes, senderDropped,
                 evtVars, decVars, facVars, bootVars, valVars>>

\* time passes while the task waits in select! with nothing handled
Tick ==
  /\ cmdPc = "running" /\ conn # "none" /\ idle < IdleSecs
  /\ idle' = idle + TickSecs
  /\ UNCHANGED <<cmdPc, conn, response_listener, mailbox, last, callerPc, reqLeft, kind,
                 chan, rx, gwIn, wire, pushes, senderDropped, evtVars,
                 decVars, facVars, bootVars, valVars>>

\* faulty variant: the sleep completes after one step of the clock
SleepReadyEarly == idle >= TickSecs

\* tokio::time::sleep(Duration::from_secs(15)), created anew in every turn of run()'s
\* loop, has completed
SleepReady == idle >= IdleSecs

\* select! branch `_ = sleep`, then CommandActor::sleep: self.conn.take()
Sleep ==
  /\ cmdPc = "running" /\ conn # "none" /\ SleepReady
  /\ conn' = "none"
  /\ wire' = <<>>
  /\ gwIn' = <<>>
  /\ idle' = 0
  /\ last' = "sleep"
  /\ UNCHANGED <<cmdPc, response_listener, mailbox, callerPc, reqLeft, kind, chan, rx,
                 pushes, senderDropped, evtVars, decVars, facVars, bootVars, valVars>>

\* the Command Task and the gateway end of its connection
NextCmdTask ==
  \/ GatewayReply
  \/ \E k \in PushKinds : GatewayPush(k)
  \/ GatewayClose
  \/ HandleEnet
  \/ HandleCmd
  \/ HandleCmdNone
  \/ Tick
  \/ Sleep

NextCmd ==
  \/ \E k \in CallKinds : CallerSend(k)
  \/ CallerComplete
  \/ CallerCancel
  \/ DropClient
  \/ NextCmdTask

\* CommandHandler::new: connected, task spawned with an empty slot and mailbox
InitCmd(n) ==
  /\ cmdPc = "running"
  /\ conn = "initial"
  /\ response_listener = 0
  /\ mailbox = <<>>
  /\ idle = 0
  /\ last = "new"
  /\ callerPc = 0
  /\ reqLeft = n
  /\ senderDropped = FALSE
  /\ kind = [r \in Reqs |-> "none"]
  /\ chan = [r \in Reqs |-> Empty]
  /\ rx = [r \in Reqs |-> "none"]
  /\ gwIn = <<>>
  /\ wire = <<>>
  /\ pushes = 0

EvtOff ==
  /\ evtPc = "off" /\ boLeft = 0 /\ evtFrames = 0 /\ evtLast = "off"
  /\ evtConn = 0 /\ subscribed = {} /\ elapsed = 0

DecOff ==
  /\ frames = <<>> /\ stream = <<>> /\ buf = <<>> /\ next_index = 0 /\ out = <<>>
  /\ decPc = "off"

\* no facade: no set_values call, no Event Task mailbox, no stream
FacOff ==
  /\ svVals = [r \in Reqs |-> <<>>] /\ svResult = [r \in Reqs |-> "none"]
  /\ evtMailbox = <<>> /\ stState = <<>> /\ stBright = <<>> /\ seen = <<>>

\* EnetClient::new is not part of the behaviour
BootOff ==
  /\ bootPc = "off" /\ bootLog = <<>> /\ channel_types = <<>> /\ items = <<>>
  /\ inventory = <<>>

\* no function of the value types is being called
ValOff == callFn = "off" /\ callArg = <<>> /\ callRet = <<>>

Init == InitCmd(MaxReq) /\ EvtOff /\ DecOff /\ FacOff /\ BootOff /\ ValOff

Spec == Init /\ [][NextCmd]_vars

----------------------------------------------------------------------------
(* The device inventory and its streams: dev.rs, the pipeline of EnetClient::new, *)
(* the writers of the Event Task                                                  *)

\* 0-based positions in project.items
Slots == 0..(MaxItems - 1)

\* the variants of ProjectItem
ItemTypes == {"Scene", "Binaer", "Dimmer", "Jalousie", "None"}

Item(t, n, prog) == [type |-> t, number |-> n, programmable |-> prog]

\* TryFrom<ProjectItem> for DeviceDesc: the kind of the descriptor, or "Err"
DescKind(item) ==
  CASE item.type = "Binaer" /\ item.programmable -> "Binary"
    [] item.type = "Dimmer" -> "Dimmer"
    [] item.type = "Jalousie" -> "Blinds"
    [] OTHER -> "Err"

\* `.filter(|(idx, _)| channel_types.devices.get(*idx) == Some(&1))`
ChannelIsDevice(types, idx) == idx < Len(types) /\ types[idx + 1] = DeviceChannel

RECURSIVE Descs(_, _, _)
\* enumerate / filter / filter_map of EnetClient::new from position idx on: the
\* descriptors kept, each with its position
Descs(its, types, idx) ==
  IF idx >= Len(its) THEN <<>>
  ELSE (IF ChannelIsDevice(types, idx) /\ DescKind(its[idx + 1]) # "Err"
          THEN <<[index |-> idx, number |-> its[idx + 1].number,
                  kind |-> DescKind(its[idx + 1])]>>
          ELSE <<>>) \o Descs(its, types, idx + 1)

\* Device::new: `DeviceKind::Blinds => todo!()` panics, the other kinds build a pair
DeviceNewPanics(k) == k = "Blinds"

\* EventActor::new: `writers.into_iter().map(|w| (w.index(), w)).collect()`
WriterKeys(inv) == {inv[i].index : i \in 1..Len(inv)}

\* the kind of the writer stored under key n
WriterKind(inv, n) ==
  LET i == CHOOSE j \in 1..Len(inv) : inv[j].index = n IN inv[i].kind

\* DeviceState::from_str
ParseState(s) ==
  CASE s = "ON" -> "On"
    [] s = "OFF" -> "Off"
    [] s \in {"UNKNOWN", "UNDEFINED"} -> "Unknown"
    [] OTHER -> "Err"

\* outcomes of DeviceBrightness::from_str other than a brightness
BrightnessErr == 0 - 1
BrightnessOverflow == 0 - 2

RECURSIVE BrightnessDigits(_, _)
\* the for loop of DeviceBrightness::from_str over the bytes s, with accumulator v
BrightnessDigits(s, v) ==
  IF s = <<>> THEN v
  ELSE IF Head(s) < 48 \/ Head(s) > 57 THEN BrightnessErr
  ELSE IF v * 10 + (Head(s) - 48) > U8Max THEN BrightnessOverflow
  ELSE BrightnessDigits(Tail(s), v * 10 + (Head(s) - 48))

\* DeviceBrightness::from_str, then DeviceBrightness::new
BrightnessFromStr(s) ==
  IF Len(s) > 3 \/ s = <<>> THEN BrightnessErr
  ELSE LET v == BrightnessDigits(s, 0)
       IN IF v > BrightnessMax THEN BrightnessErr ELSE v

RECURSIVE BrightnessDigitsWrapping(_, _)
\* the same loop in a build without overflow checks: `v *= 10` and `v += b - b'0'`
\* wrap around the u8
BrightnessDigitsWrapping(s, v) ==
  IF s = <<>> THEN v
  ELSE IF Head(s) < 48 \/ Head(s) > 57 THEN BrightnessErr
  ELSE BrightnessDigitsWrapping(Tail(s), (((v * 10) % (U8Max + 1)) + (Head(s) - 48)) % (U8Max + 1))

\* DeviceBrightness::from_str in a build without overflow checks
BrightnessFromStrWrapping(s) ==
  IF Len(s) > 3 \/ s = <<>> THEN BrightnessErr
  ELSE LET v == BrightnessDigitsWrapping(s, 0)
       IN IF v > BrightnessMax THEN BrightnessErr ELSE v

\* the string "-1"
MinusOne == <<45, 49>>

\* EventualWriter::write on the state stream of writer n
WriteState(S, n, st) ==
  [S EXCEPT !.state[n] = st, !.seen[n] = S.seen[n] \cup {st}]

\* EventualWriter::write on the brightness stream of writer n
WriteBrightness(S, n, b) == [S EXCEPT !.bright[n] = b]

\* faulty variant: the state writer is used without looking the number up
ApplyEntryUnchecked(inv, S, e) ==
  IF ParseState(e.state) # "Err" THEN WriteState(S, e.number, ParseState(e.state)) ELSE S

\* the body of the for loop of update_values_from_enet for one ItemUpdateValue e, b
\* being what DeviceBrightness::from_str(&*value.value) returns (a brightness or
\* BrightnessErr)
ApplyEntryParsed(inv, S, e, b) ==
  IF e.number \notin WriterKeys(inv) THEN S
  ELSE LET n == e.number
           st == ParseState(e.state)
           S1 == IF st # "Err" THEN WriteState(S, n, st) ELSE S
       IN IF WriterKind(inv, n) = "Binary" THEN S1
          ELSE IF b >= 0 THEN WriteBrightness(S1, n, b)
          ELSE IF e.value = MinusOne THEN WriteBrightness(S1, n, BrightnessMin)
          ELSE S1

\* the loop body for an entry whose VALUE stays within the u8 accumulator of
\* DeviceBrightness::from_str, as every entry of UpdateBatches does
ApplyEntry(inv, S, e) == ApplyEntryParsed(inv, S, e, BrightnessFromStr(e.value))

RECURSIVE UpdateValuesFromEnet(_, _, _)
\* update_values_from_enet
UpdateValuesFromEnet(inv, S, values) ==
  IF values = <<>> THEN S
  ELSE UpdateValuesFromEnet(inv, ApplyEntry(inv, S, Head(values)), Tail(values))

RECURSIVE UpdateDeviceStatesWithBrightness(_, _, _)
\* faulty variant: a dimmer's brightness is synthesized from the state as well
UpdateDeviceStatesWithBrightness(inv, S, pairs) ==
  IF pairs = <<>> THEN S
  ELSE LET q == Head(pairs)
           S1 == IF q.number \in WriterKeys(inv) THEN WriteState(S, q.number, q.state)
                 ELSE S
           S2 == IF q.number \in WriterKeys(inv) /\ WriterKind(inv, q.number) = "Dimmer"
                      /\ q.state = "Off"
                   THEN WriteBrightness(S1, q.number, BrightnessMin) ELSE S1
       IN UpdateDeviceStatesWithBrightness(inv, S2, Tail(pairs))

RECURSIVE UpdateDeviceStates(_, _, _)
\* update_device_states: the state writer of every known number is written
UpdateDeviceStates(inv, S, pairs) ==
  IF pairs = <<>> THEN S
  ELSE LET q == Head(pairs)
           S1 == IF q.number \in WriterKeys(inv) THEN WriteState(S, q.number, q.state)
                 ELSE S
       IN UpdateDeviceStates(inv, S1, Tail(pairs))

\* the streams as one value
Streams == [state |-> stState, bright |-> stBright, seen |-> seen]

\* the streams become S
SetStreams(S) == stState' = S.state /\ stBright' = S.bright /\ seen' = S.seen

\* SetValue
On == [t |-> "On", v |-> 0]
Off == [t |-> "Off", v |-> 0]
Dimm(v) == [t |-> "Dimm", v |-> v]
Blinds(v) == [t |-> "Blinds", v |-> v]

\* set_values: the STATE string of the synthetic update for a SetValue
EchoState(sv) ==
  CASE sv.t = "On" -> "ON"
    [] sv.t = "Off" -> "OFF"
    [] sv.t = "Dimm" /\ sv.v = 0 -> "OFF"
    [] sv.t = "Dimm" -> "ON"
    [] sv.t = "Blinds" /\ sv.v = 0 -> "OFF"
    [] sv.t = "Blinds" -> "ON"

RECURSIVE Echo(_)
\* set_values: the synthetic updates of a Vec<ItemSetValue>, as the (number, state)
\* pairs ActorMessage::SetStates carries
Echo(values) ==
  IF values = <<>> THEN <<>>
  ELSE <<[number |-> Head(values).number, state |-> ParseState(EchoState(Head(values).value))]>>
       \o Echo(Tail(values))

\* the project and channel types the modelled client was built from
ClientItems == <<Item("Binaer", 0, TRUE), Item("Dimmer", 1, TRUE), Item("Scene", 2, TRUE)>>
ClientTypes == <<DeviceChannel, DeviceChannel, DeviceChannel>>

\* the Vec<ItemSetValue> arguments the modelled application passes to set_values
SetValueVecs ==
  { <<[number |-> 0, value |-> On], [number |-> 1, value |-> Dimm(0)]>>,
    <<[number |-> 2, value |-> Off]>> }

\* the ITEM_UPDATE batches the modelled gateway pushes on the event connection
UpdateBatches ==
  { <<[number |-> 0, state |-> "OFF", value |-> <<48>>],
      [number |-> 1, state |-> "ON", value |-> <<53, 48>>]>>,
    <<[number |-> 1, state |-> "bogus", value |-> MinusOne],
      [number |-> 2, state |-> "ON", value |-> <<49>>]>> }

----------------------------------------------------------------------------
(* The Event Task: EventActor::run and EventActor::main *)

\* the kinds of thing conn.recv() yields on the event connection
EvtInbound == {"ItemUpdate", "ItemValueSignIn", "Other", "Closed", "DecoderError"}

\* run() has returned or panicked: the actor, its mailbox receiver and writers are gone
EvtDone == {"exited", "panicked"}

\* faulty variant: the mailbox only takes messages while the steady loop runs
EvtMailboxOpenWhenSteady == evtPc = "steady"

\* UnboundedSender::send succeeds as long as the receiver exists
EvtMailboxOpen == evtPc \notin EvtDone

\* faulty variant: the result of the post is ignored
PostResultIgnored(open) == "Ok"

\* set_values: `update_values(updates).map_err(|()| ConnectionClosed)?; Ok(())`
PostResult(open) == IF open THEN "Ok" ELSE "ConnectionClosed"

\* what set_values call r has returned, "none" while it has not
SetValuesResult(r) == IF svResult[r] # "none" THEN svResult[r] ELSE ResultOf(r)

\* EnetClient::set_values from the completion of `self.commands.set_values(..).await`
\* to its return: an error is propagated, after Ok the synthetic pairs are posted
SetValuesReturn ==
  /\ callerPc # 0 /\ chan[callerPc] # Pending
  /\ LET r == callerPc IN
       /\ rx' = [rx EXCEPT ![r] = "done"]
       /\ callerPc' = 0
       /\ IF OutcomeOf(chan[r]) = "Ok"
            THEN /\ svResult' = [svResult EXCEPT ![r] = PostResult(EvtMailboxOpen)]
                 /\ evtMailbox' = (IF EvtMailboxOpen
                                     THEN Append(evtMailbox,
                                                 [call |-> r, pairs |-> Echo(svVals[r])])
                                     ELSE evtMailbox)
            ELSE /\ svResult' = [svResult EXCEPT ![r] = OutcomeOf(chan[r])]
                 /\ UNCHANGED evtMailbox
  /\ UNCHANGED <<cmdPc, conn, response_listener, mailbox, idle, last, reqLeft, kind, chan,
                 gwIn, wire, pushes, senderDropped, evtVars, decVars,
                 svVals, stState, stBright, seen, bootVars, valVars>>

\* faulty variant: the task sleeps and retries although the backoff has run out
BackoffForever(lbl) ==
  /\ evtPc' = "backoff" /\ boLeft' = (IF boLeft = 0 THEN 0 ELSE boLeft - 1)
  /\ evtLast' = lbl /\ UNCHANGED evtMailbox
  /\ subscribed' = {} /\ elapsed' = 0

\* `return ControlFlow::Continue(backoff.next_backoff())` and run()'s match on it:
\* None panics (the actor is dropped, and the messages queued for it), Some(duration)
\* sleeps; the connection, if one was open, is dropped with main()'s locals
BackoffOrPanic(lbl) ==
  /\ IF boLeft = 0
       THEN evtPc' = "panicked" /\ evtMailbox' = <<>> /\ UNCHANGED boLeft
       ELSE evtPc' = "backoff" /\ boLeft' = boLeft - 1 /\ UNCHANGED evtMailbox
  /\ evtLast' = lbl
  /\ subscribed' = {} /\ elapsed' = 0

\* faulty variant: the request lists no item
SubscribeItemsNone(inv) == {}

\* `ItemValueSignInReq::new(self.writers.keys().copied().collect())`
SubscribeItems(inv) == WriterKeys(inv)

\* faulty variant: a successful sign-in resets the backoff
EvtMainResets ==
  /\ evtPc = "main"
  /\ \E connectOk, sendOk \in BOOLEAN :
       /\ connectOk => evtConn < MaxEvtConn
       /\ evtConn' = (IF connectOk THEN evtConn + 1 ELSE evtConn)
       /\ IF connectOk /\ sendOk
            THEN /\ evtPc' = "steady" /\ evtLast' = "signed_in"
                 /\ subscribed' = SubscribeItems(inventory) /\ elapsed' = 0
                 /\ boLeft' = MaxBackoff /\ UNCHANGED evtMailbox
            ELSE BackoffOrPanic(IF connectOk THEN "sign_in_failed" ELSE "connect_failed")
  /\ UNCHANGED <<evtFrames, cmdVars, senderDropped, decVars,
                 svVals, svResult, stState, stBright, seen, bootVars, valVars>>

\* main() up to the steady loop: open the connection, send ITEM_VALUE_SIGN_IN_REQ for
\* the keys of the writers, take the time `then`
EvtMain ==
  /\ evtPc = "main"
  /\ \E connectOk, sendOk \in BOOLEAN :
       /\ connectOk => evtConn < MaxEvtConn
       /\ evtConn' = (IF connectOk THEN evtConn + 1 ELSE evtConn)
       /\ IF connectOk /\ sendOk
            THEN /\ evtPc' = "steady" /\ evtLast' = "signed_in"
                 /\ subscribed' = SubscribeItems(inventory) /\ elapsed' = 0
                 /\ UNCHANGED <<boLeft, evtMailbox>>
            ELSE BackoffOrPanic(IF connectOk THEN "sign_in_failed" ELSE "connect_failed")
  /\ UNCHANGED <<evtFrames, cmdVars, senderDropped, decVars,
                 svVals, svResult, stState, stBright, seen, bootVars, valVars>>

\* run(): tokio::time::sleep(duration) is over, main() is called again
EvtWake ==
  /\ evtPc = "backoff"
  /\ evtPc' = "main"
  /\ evtLast' = "woke"
  /\ UNCHANGED <<boLeft, evtFrames, evtConn, subscribed, elapsed, cmdVars, senderDropped, decVars, facVars, bootVars, valVars>>

\* top of the steady loop: `Duration::from_secs(60 * 5) - duration` does not underflow
WaitTimeOk == elapsed <= ResubscribeSecs

\* `now - then` at the top of the loop after a handler has run: before the wait time is
\* over the handler's own time is not counted, at the end of the wait time (the timer
\* and the message were ready together and select! took the message) it brings the
\* duration above 5 minutes
AfterHandler(e) == IF e >= ResubscribeSecs THEN e + 1 ELSE e

\* steady loop, select! branch `v = self.recv.recv()` with None: every sender is gone
\* and the queue is empty
EvtMailboxClosed ==
  /\ evtPc = "steady" /\ WaitTimeOk /\ senderDropped /\ evtMailbox = <<>>
  /\ evtPc' = "exited"
  /\ evtLast' = "break"
  /\ subscribed' = {} /\ elapsed' = 0
  /\ UNCHANGED <<boLeft, evtFrames, evtConn, cmdVars, senderDropped, decVars, facVars, bootVars, valVars>>

\* steady loop, select! branch `v = self.recv.recv()` with Some(SetStates(values)):
\* handle_msg, update_device_states
EvtHandleMsg ==
  /\ evtPc = "steady" /\ WaitTimeOk /\ evtMailbox # <<>>
  /\ SetStreams(UpdateDeviceStates(inventory, Streams, Head(evtMailbox).pairs))
  /\ evtMailbox' = Tail(evtMailbox)
  /\ evtLast' = "handled_msg"
  /\ elapsed' = AfterHandler(elapsed)
  /\ UNCHANGED <<evtPc, boLeft, evtFrames, evtConn, subscribed, cmdVars, senderDropped, decVars,
                 svVals, svResult, bootVars, valVars>>

\* steady loop, select! branch `enet = conn.recv()` with Response::ItemUpdate(upd):
\* backoff.reset(), update_values_from_enet(upd.values)
EvtRecvUpdate(values) ==
  /\ evtPc = "steady" /\ WaitTimeOk /\ evtFrames > 0
  /\ evtFrames' = evtFrames - 1
  /\ boLeft' = MaxBackoff
  /\ SetStreams(UpdateValuesFromEnet(inventory, Streams, values))
  /\ evtLast' = "received"
  /\ elapsed' = AfterHandler(elapsed)
  /\ UNCHANGED <<evtPc, evtMailbox, evtConn, subscribed, cmdVars, senderDropped, decVars,
                 svVals, svResult, bootVars, valVars>>

\* faulty variant: a response of another kind is skipped and the loop continues
EvtRecvSkipsOther(k) ==
  /\ evtPc = "steady" /\ WaitTimeOk /\ evtFrames > 0 /\ k # "ItemUpdate"
  /\ evtFrames' = evtFrames - 1
  /\ IF k \in {"ItemValueSignIn", "Other"}
       THEN /\ boLeft' = (IF k = "Other" THEN boLeft ELSE MaxBackoff)
            /\ evtLast' = "received"
            /\ elapsed' = AfterHandler(elapsed)
            /\ UNCHANGED <<evtPc, evtMailbox, subscribed>>
       ELSE BackoffOrPanic(IF k = "Other" THEN "wrong_kind" ELSE "recv_failed")
  /\ UNCHANGED <<evtConn, cmdVars, senderDropped, decVars,
                 svVals, svResult, stState, stBright, seen, bootVars, valVars>>

\* steady loop, select! branch `enet = conn.recv()` with anything but an ITEM_UPDATE
EvtRecv(k) ==
  /\ evtPc = "steady" /\ WaitTimeOk /\ evtFrames > 0 /\ k # "ItemUpdate"
  /\ evtFrames' = evtFrames - 1
  /\ IF k = "ItemValueSignIn"
       THEN \* backoff.reset(), the loop continues
            /\ boLeft' = MaxBackoff
            /\ evtLast' = "received"
            /\ elapsed' = AfterHandler(elapsed)
            /\ UNCHANGED <<evtPc, evtMailbox, subscribed>>
       ELSE BackoffOrPanic(IF k = "Other" THEN "wrong_kind" ELSE "recv_failed")
  /\ UNCHANGED <<evtConn, cmdVars, senderDropped, decVars,
                 svVals, svResult, stState, stBright, seen, bootVars, valVars>>

\* `tokio::time::sleep(wait_time)` with wait_time = 5 minutes - (now - then) has completed
ResubscribeDue == elapsed = ResubscribeSecs

\* steady loop, select! branch `_ = tokio::time::sleep(wait_time)`: send the same
\* request again, `then = SystemTime::now()`
EvtResubscribe ==
  /\ evtPc = "steady" /\ ResubscribeDue
  /\ \E sendOk \in BOOLEAN :
       IF sendOk
         THEN /\ evtLast' = "resubscribed" /\ elapsed' = 0
              /\ UNCHANGED <<evtPc, boLeft, evtMailbox, subscribed>>
         ELSE BackoffOrPanic("sign_in_failed")
  /\ UNCHANGED <<evtFrames, evtConn, cmdVars, senderDropped, decVars,
                 svVals, svResult, stState, stBright, seen, bootVars, valVars>>

\* time passes while the task awaits its select! in the steady loop, at most until the
\* wait time is over
EvtElapse ==
  /\ evtPc = "steady" /\ elapsed < ResubscribeSecs
  /\ elapsed' = (IF elapsed + EvtTickSecs < ResubscribeSecs THEN elapsed + EvtTickSecs
                 ELSE ResubscribeSecs)
  /\ UNCHANGED <<evtPc, boLeft, evtFrames, evtLast, evtConn, subscribed, cmdVars,
                 senderDropped, decVars, facVars, bootVars, valVars>>

\* top of the steady loop with more than 5 minutes since `then`:
\* `Duration::from_secs(60 * 5) - duration` panics, the task is gone
EvtWaitUnderflow ==
  /\ evtPc = "steady" /\ ~WaitTimeOk
  /\ evtPc' = "panicked" /\ evtLast' = "underflow"
  /\ evtMailbox' = <<>> /\ subscribed' = {} /\ elapsed' = 0
  /\ UNCHANGED <<boLeft, evtFrames, evtConn, cmdVars, senderDropped, decVars,
                 svVals, svResult, stState, stBright, seen, bootVars, valVars>>

NextEvt ==
  \/ EvtMain
  \/ EvtWake
  \/ EvtMailboxClosed
  \/ EvtHandleMsg
  \/ \E values \in UpdateBatches : EvtRecvUpdate(values)
  \/ \E k \in EvtInbound \ {"ItemUpdate"} : EvtRecv(k)
  \/ EvtResubscribe
  \/ EvtElapse
  \/ EvtWaitUnderflow

\* the application's side of the client: set_values calls, which may be abandoned,
\* and the drop of the client
NextApp ==
  \/ CallerSend("ItemValue")
  \/ SetValuesReturn
  \/ CallerCancel
  \/ DropClient

\* EventHandler::new: the task is spawned and about to call main(); the backoff is fresh
InitEvt ==
  /\ evtPc = "main" /\ boLeft = MaxBackoff /\ evtFrames = MaxEvtFrames /\ evtLast = "new"
  /\ evtConn = 0 /\ subscribed = {} /\ elapsed = 0

\* the streams after Device::new (Eventual::new() holds no value), no set_values call
\* made yet; the arguments of the calls to come are drawn here
InitFac(n) ==
  /\ svVals \in [Reqs -> SetValueVecs \cup {<<>>}]
  /\ \A r \in Reqs : svVals[r] = <<>> <=> r > n
  /\ svResult = [r \in Reqs |-> "none"]
  /\ evtMailbox = <<>>
  /\ stState = [i \in Slots |-> "none"]
  /\ stBright = [i \in Slots |-> 0 - 1]
  /\ seen = [i \in Slots |-> {}]

\* EnetClient::new has returned Ok with the inventory of the modelled project
BootDone ==
  /\ bootPc = "done"
  /\ bootLog = <<>>
  /\ channel_types = ClientTypes
  /\ items = ClientItems
  /\ inventory = Descs(ClientItems, ClientTypes, 0)

\* the client after EnetClient::new: both tasks running
InitClient == InitCmd(MaxReqClient) /\ InitEvt /\ DecOff /\ InitFac(MaxReqClient) /\ BootDone /\ ValOff

SpecClient == InitClient /\ [][NextApp \/ NextCmdTask \/ NextEvt]_vars

\* the Event Task signed in, in its steady loop, on an event connection that stays up
\* and silent
InitSteady ==
  /\ evtPc = "steady" /\ boLeft = MaxBackoff /\ evtFrames = 0 /\ evtLast = "signed_in"
  /\ evtConn = 1 /\ subscribed = SubscribeItems(Descs(ClientItems, ClientTypes, 0))
  /\ elapsed = 0

\* the client with its Event Task in the steady loop
InitFacade == InitCmd(MaxReq) /\ InitSteady /\ DecOff /\ InitFac(MaxReq) /\ BootDone /\ ValOff

\* the facade, the Command Task and the mailbox branch of the Event Task's steady loop
NextFacade ==
  \/ NextApp
  \/ NextCmdTask
  \/ EvtHandleMsg
  \/ EvtMailboxClosed

SpecFacade == InitFacade /\ [][NextFacade]_vars

----------------------------------------------------------------------------
(* The framing codec: EnetEncoder::encode, EnetDecoder::decode, parse *)

DELIMETER == <<CR, LF, CR, LF>>

\* bytes of a serialized JSON document: neither CR nor LF occurs in one
BodyBytes == {97, 98}

RECURSIVE SeqsUpTo(_, _)
\* the sequences over S of length 1..n
SeqsUpTo(S, n) ==
  IF n = 0 THEN {}
  ELSE {<<x>> : x \in S} \cup
       {Append(q, x) : q \in SeqsUpTo(S, n - 1), x \in S}

Bodies == SeqsUpTo(BodyBytes, MaxBody)

\* EnetEncoder::encode: the serialized item, then the delimiter
Encode(body) == body \o DELIMETER

RECURSIVE EncodeAll(_)
EncodeAll(fs) == IF fs = <<>> THEN <<>> ELSE Encode(Head(fs)) \o EncodeAll(Tail(fs))

\* DELIMETER_REGEX.find_at(buf, start): the 0-based offset of the first occurrence of
\* the delimiter that begins at or after `start`, or -1
FindAt(b, start) ==
  LET hits == {i \in start..(Len(b) - Len(DELIMETER)) :
                 SubSeq(b, i + 1, i + Len(DELIMETER)) = DELIMETER}
  IN IF hits = {} THEN 0 - 1 ELSE CHOOSE i \in hits : \A j \in hits : i <= j

RECURSIVE EndCharsMatching(_, _)
\* the while loop of decode's None arm: buf.iter().rev() against
\* DELIMETER.as_bytes().iter().rev(), counting while equal and count < len - 1
EndCharsMatching(b, k) ==
  LET e == IF k < Len(b) THEN b[Len(b) - k] ELSE 0 - 1
      d == IF k < Len(DELIMETER) THEN DELIMETER[Len(DELIMETER) - k] ELSE 0 - 1
  IN IF e = d /\ k < Len(DELIMETER) - 1 THEN EndCharsMatching(b, k + 1) ELSE k

\* decode's None arm: self.next_index = buf.len() - end_chars_matching
NextIndexAfterNone(b) == Len(b) - EndCharsMatching(b, 0)

IsSpace(x) == x \in {CR, LF, 32, 9}

RECURSIVE TrimLeft(_)
TrimLeft(c) == IF c # <<>> /\ IsSpace(Head(c)) THEN TrimLeft(Tail(c)) ELSE c

RECURSIVE TrimRight(_)
TrimRight(c) ==
  IF c # <<>> /\ IsSpace(c[Len(c)]) THEN TrimRight(SubSeq(c, 1, Len(c) - 1)) ELSE c

DecoderError == <<0 - 1>>

\* parse: serde_json::from_slice accepts one document with whitespace around it and
\* fails on anything else (an empty input, trailing characters)
Parse(chunk) ==
  LET t == TrimRight(TrimLeft(chunk))
  IN IF t # <<>> /\ \A i \in 1..Len(t) : t[i] \in BodyBytes THEN t ELSE DecoderError

\* the framed reader appends the next n bytes of the stream to the buffer
DecRead(n) ==
  /\ decPc = "read" /\ n \in 1..Len(stream)
  /\ buf' = buf \o SubSeq(stream, 1, n)
  /\ stream' = SubSeq(stream, n + 1, Len(stream))
  /\ decPc' = "decode"
  /\ UNCHANGED <<frames, next_index, out, cmdVars, senderDropped, evtVars, facVars, bootVars, valVars>>

\* EnetDecoder::decode on the buffer; the framed reader calls it again after a frame,
\* reads more after None, and ends the stream after an error
Decode ==
  /\ decPc = "decode"
  /\ LET m == FindAt(buf, next_index) IN
       IF m < 0
         THEN /\ next_index' = NextIndexAfterNone(buf)
              /\ decPc' = "read"
              /\ UNCHANGED <<buf, out>>
         ELSE LET end == m + Len(DELIMETER)
                  item == Parse(SubSeq(buf, 1, end - Len(DELIMETER)))
              IN /\ next_index' = 0
                 /\ buf' = SubSeq(buf, end + 1, Len(buf))
                 /\ out' = Append(out, item)
                 /\ decPc' = (IF item = DecoderError THEN "failed" ELSE "decode")
  /\ UNCHANGED <<frames, stream, cmdVars, senderDropped, evtVars, facVars, bootVars, valVars>>

NextDec ==
  \/ \E n \in 1..Len(stream) : DecRead(n)
  \/ Decode

CmdOff ==
  /\ cmdPc = "exited" /\ conn = "none" /\ response_listener = 0 /\ mailbox = <<>>
  /\ idle = 0 /\ last = "off" /\ callerPc = 0 /\ reqLeft = 0 /\ senderDropped = TRUE
  /\ kind = [r \in Reqs |-> "none"] /\ chan = [r \in Reqs |-> Empty]
  /\ rx = [r \in Reqs |-> "none"] /\ gwIn = <<>> /\ wire = <<>> /\ pushes = 0

\* a new decoder and an empty buffer, before the first read of the encoded stream
InitDec ==
  /\ frames \in SeqsUpTo(Bodies, MaxFrames)
  /\ stream = EncodeAll(frames)
  /\ buf = <<>>
  /\ next_index = 0
  /\ out = <<>>
  /\ decPc = "read"

InitCodec == InitDec /\ CmdOff /\ EvtOff /\ FacOff /\ BootOff /\ ValOff

SpecDec == InitCodec /\ [][NextDec]_vars

----------------------------------------------------------------------------
(* EnetClient::new.  The three commands go through the Command Task modelled above; *)
(* here each is one step whose outcome is drawn from those CommandHandler::send     *)
(* can return.                                                                      *)

\* the steps of EnetClient::new, in the order of its statements
BootOrder == <<"open", "get_version", "get_channel_info", "get_project", "build", "events">>

\* the errors a command can return (enum CommandError)
CommandErrors == {"SendError", "ConnectionClosed", "NoResponse", "WrongResponse"}

\* the channel-type codes of the modelled gateway
ChannelTypes == {0, DeviceChannel}

\* GetChannelInfoAllRes.devices: any vector of up to MaxItems codes
TypeVecs == UNION {[1..k -> ChannelTypes] : k \in 0..MaxItems}

\* the project items that can stand at position idx: any variant, a NUMBER that is the
\* position or is not, PROGRAMMABLE either way for a Binaer
ItemsAt(idx) ==
  {Item(t, n, b) : t \in ItemTypes, n \in {idx, idx + MaxItems}, b \in BOOLEAN}
    \ {it \in [type : ItemTypes, number : {idx, idx + MaxItems}, programmable : {FALSE}] :
         it.type # "Binaer"}

RECURSIVE ItemVecsOfLen(_)
\* the vectors of k items, the item at position i being one of ItemsAt(i)
ItemVecsOfLen(k) ==
  IF k = 0 THEN {<<>>}
  ELSE {Append(f, it) : f \in ItemVecsOfLen(k - 1), it \in ItemsAt(k - 1)}

\* ProjectListRes.items: any vector of up to MaxItems items
ItemVecs == UNION {ItemVecsOfLen(k) : k \in 0..MaxItems}

\* faulty variant: the error of a step does not end new(), the step is made again
BootFailRetries(step) ==
  /\ bootPc' = bootPc
  /\ bootLog' = Append(bootLog, step)
  /\ UNCHANGED <<channel_types, items, inventory>>

\* a step of new() that ends it: `?` returns the error
BootFail(step) ==
  /\ bootPc' = "failed"
  /\ bootLog' = Append(bootLog, step)
  /\ UNCHANGED <<channel_types, items, inventory>>

\* `CommandHandler::new(addr.clone()).await?`
BootOpen ==
  /\ bootPc = "open"
  /\ \E ok \in BOOLEAN :
       IF ok THEN /\ bootPc' = "get_version"
                  /\ bootLog' = Append(bootLog, "open")
                  /\ UNCHANGED <<channel_types, items, inventory>>
             ELSE BootFail("open")
  /\ UNCHANGED <<cmdVars, senderDropped, evtVars, decVars, facVars, valVars>>

\* `commands.get_version().await?`
BootVersion ==
  /\ bootPc = "get_version"
  /\ \E res \in {"Ok"} \cup CommandErrors :
       IF res = "Ok" THEN /\ bootPc' = "get_channel_info"
                          /\ bootLog' = Append(bootLog, "get_version")
                          /\ UNCHANGED <<channel_types, items, inventory>>
                     ELSE BootFail("get_version")
  /\ UNCHANGED <<cmdVars, senderDropped, evtVars, decVars, facVars, valVars>>

\* `commands.get_channel_info().await?`
BootChannelInfo ==
  /\ bootPc = "get_channel_info"
  /\ \/ \E types \in TypeVecs :
          /\ channel_types' = types
          /\ bootPc' = "get_project"
          /\ bootLog' = Append(bootLog, "get_channel_info")
          /\ UNCHANGED <<items, inventory>>
     \/ BootFail("get_channel_info")
  /\ UNCHANGED <<cmdVars, senderDropped, evtVars, decVars, facVars, valVars>>

\* `commands.get_project().await?`
BootProject ==
  /\ bootPc = "get_project"
  /\ \/ \E its \in ItemVecs :
          /\ items' = its
          /\ bootPc' = "build"
          /\ bootLog' = Append(bootLog, "get_project")
          /\ UNCHANGED <<channel_types, inventory>>
     \/ BootFail("get_project")
  /\ UNCHANGED <<cmdVars, senderDropped, evtVars, decVars, facVars, valVars>>

\* the enumerate / filter / filter_map / map(Device::new) / unzip pipeline: Device::new
\* is called for every descriptor kept, and panics on the first of kind Blinds
BootBuild ==
  /\ bootPc = "build"
  /\ bootLog' = Append(bootLog, "build")
  /\ LET ds == Descs(items, channel_types, 0) IN
       IF \E i \in 1..Len(ds) : DeviceNewPanics(ds[i].kind)
         THEN bootPc' = "panicked" /\ UNCHANGED inventory
         ELSE bootPc' = "events" /\ inventory' = ds
  /\ UNCHANGED <<channel_types, items, cmdVars, senderDropped, evtVars, decVars, facVars, valVars>>

\* `EventHandler::new(addr, writers).await?`: the Event Task is spawned, Ok is returned
BootEvents ==
  /\ bootPc = "events"
  /\ bootPc' = "done"
  /\ bootLog' = Append(bootLog, "events")
  /\ evtPc' = "main" /\ boLeft' = MaxBackoff /\ evtFrames' = MaxEvtFrames /\ evtLast' = "new"
  /\ UNCHANGED <<evtConn, subscribed, elapsed>>
  /\ UNCHANGED <<channel_types, items, inventory, cmdVars, senderDropped, decVars, facVars, valVars>>

NextNew ==
  \/ BootOpen
  \/ BootVersion
  \/ BootChannelInfo
  \/ BootProject
  \/ BootBuild
  \/ BootEvents

\* EnetClient::new is called
InitNew ==
  /\ bootPc = "open" /\ bootLog = <<>> /\ channel_types = <<>> /\ items = <<>>
  /\ inventory = <<>>

InitBoot == InitNew /\ CmdOff /\ EvtOff /\ DecOff /\ FacOff /\ ValOff

SpecNew == InitBoot /\ [][NextNew]_vars

----------------------------------------------------------------------------
(* The Event Task on its own: the task from its spawn, the gateway end of the event *)
(* connection, the clock, and an application that may already have posted the pairs *)
(* of one set_values call and drops the client at some point          (SpecEvt)    *)

\* set_values call 1 has returned Ok and its pairs wait in the mailbox, or no call was made
InitPosted ==
  /\ \E v \in SetValueVecs \cup {<<>>} :
       /\ svVals = [r \in Reqs |-> IF r = 1 THEN v ELSE <<>>]
       /\ svResult = [r \in Reqs |-> IF r = 1 /\ v # <<>> THEN "Ok" ELSE "none"]
       /\ evtMailbox = (IF v = <<>> THEN <<>> ELSE <<[call |-> 1, pairs |-> Echo(v)]>>)
  /\ stState = [i \in Slots |-> "none"]
  /\ stBright = [i \in Slots |-> 0 - 1]
  /\ seen = [i \in Slots |-> {}]

InitEvtTask == InitCmd(0) /\ InitEvt /\ DecOff /\ InitPosted /\ BootDone /\ ValOff

SpecEvt == InitEvtTask /\ [][NextEvt \/ DropClient]_vars

----------------------------------------------------------------------------
(* Single calls of the functions of the value types: the argument is drawn by *)
(* the initial state, the action is the call                      (SpecVal)  *)

\* the bytes brightness strings are drawn from: '0' '1' '2' '5' '6' '9' 'a'
BrightnessBytes == {48, 49, 50, 53, 54, 57, 97}

\* the strings handed to DeviceBrightness::from_str
BrightnessStrings == SeqsUpTo(BrightnessBytes, MaxStrLen)

\* DeviceBrightness::from_str(callArg): with overflow checks the arithmetic panics
\* where it overflows (BrightnessOverflow), without them it wraps
CallBrightnessFromStr ==
  /\ callFn = "DeviceBrightness::from_str" /\ callRet = <<>>
  /\ \E r \in {BrightnessFromStr(callArg), BrightnessFromStrWrapping(callArg)} :
       callRet' = <<r>>
  /\ UNCHANGED <<callFn, callArg, cmdVars, senderDropped, evtVars, decVars, facVars, bootVars>>

\* DeviceValue
Undefined == [t |-> "Undefined", v |-> 0]
ValueOff == [t |-> "Off", v |-> 0]
ValueOn(b) == [t |-> "On", v |-> b]
AllOff == [t |-> "AllOff", v |-> 0]
AllOn == [t |-> "AllOn", v |-> 0]

\* the DeviceValues compared: every variant, On with three brightnesses
DeviceValues ==
  {Undefined, ValueOff, AllOff, AllOn, ValueOn(BrightnessMin), ValueOn(50), ValueOn(BrightnessMax)}

\* Ord::cmp of two u8
Cmp(x, y) == IF x < y THEN "Less" ELSE IF x > y THEN "Greater" ELSE "Equal"

\* faulty variant: Off is ordered above On(_)
PartialCmpOffAboveOn(a, b) ==
  CASE a.t = "Undefined" /\ b.t = "Undefined" -> "Equal"
    [] a.t = "Undefined" \/ b.t = "Undefined" -> "None"
    [] a.t = "Off" /\ b.t = "Off" -> "Equal"
    [] a.t = "Off" /\ b.t = "On" -> "Greater"
    [] a.t = "On" /\ b.t = "Off" -> "Less"
    [] a.t = "On" /\ b.t = "On" -> Cmp(a.v, b.v)
    [] a.t = "AllOff" /\ b.t = "AllOff" -> "Equal"
    [] a.t = "AllOff" /\ b.t = "AllOn" -> "Less"
    [] a.t = "AllOn" /\ b.t = "AllOff" -> "Greater"
    [] a.t = "AllOn" /\ b.t = "AllOn" -> "Equal"
    [] OTHER -> "None"

\* DeviceValue::partial_cmp, arm by arm; "None" is Option::None
PartialCmp(a, b) ==
  CASE a.t = "Undefined" /\ b.t = "Undefined" -> "Equal"
    [] a.t = "Undefined" /\ b.t # "Undefined" -> "None"
    [] a.t # "Undefined" /\ b.t = "Undefined" -> "None"
    [] a.t = "Off" /\ b.t = "Off" -> "Equal"
    [] a.t = "Off" /\ b.t = "On" -> "Less"
    [] a.t = "Off" /\ b.t = "AllOff" -> "None"
    [] a.t = "Off" /\ b.t = "AllOn" -> "None"
    [] a.t = "On" /\ b.t = "Off" -> "Greater"
    [] a.t = "On" /\ b.t = "On" -> Cmp(a.v, b.v)
    [] a.t = "On" /\ b.t = "AllOff" -> "None"
    [] a.t = "On" /\ b.t = "AllOn" -> "None"
    [] a.t = "AllOff" /\ b.t = "Off" -> "None"
    [] a.t = "AllOff" /\ b.t = "On" -> "None"
    [] a.t = "AllOff" /\ b.t = "AllOff" -> "Equal"
    [] a.t = "AllOff" /\ b.t = "AllOn" -> "Less"
    [] a.t = "AllOn" /\ b.t = "Off" -> "None"
    [] a.t = "AllOn" /\ b.t = "On" -> "None"
    [] a.t = "AllOn" /\ b.t = "AllOff" -> "Greater"
    [] a.t = "AllOn" /\ b.t = "AllOn" -> "Equal"

\* partial_cmp on the pairs of three values a, b, c = callArg
CallPartialCmp ==
  /\ callFn = "DeviceValue::partial_cmp" /\ callRet = <<>>
  /\ callRet' = <<[ab |-> PartialCmp(callArg[1], callArg[2]),
                   ba |-> PartialCmp(callArg[2], callArg[1]),
                   bc |-> PartialCmp(callArg[2], callArg[3]),
                   ac |-> PartialCmp(callArg[1], callArg[3])]>>
  /\ UNCHANGED <<callFn, callArg, cmdVars, senderDropped, evtVars, decVars, facVars, bootVars>>

\* the SetValues a state is derived from
SetValues == {On, Off} \cup {Dimm(v) : v \in {0, 1, BrightnessMax}}
                       \cup {Blinds(v) : v \in {0, 1, BrightnessMax}}

\* From<SetValue> for DeviceState: the conversion that yields the DeviceState of the
\* (u32, DeviceState) pairs EventHandler::update_values takes; "Panic" is todo!()
DeviceStateFrom(sv) ==
  CASE sv.t = "On" -> "On"
    [] sv.t = "Off" -> "Off"
    [] sv.t = "Dimm" /\ sv.v = 0 -> "Off"
    [] sv.t = "Dimm" -> "On"
    [] sv.t = "Blinds" -> "Panic"

\* DeviceState::from(callArg)
CallDeviceStateFrom ==
  /\ callFn = "DeviceState::from" /\ callRet = <<>>
  /\ callRet' = <<DeviceStateFrom(callArg)>>
  /\ UNCHANGED <<callFn, callArg, cmdVars, senderDropped, evtVars, decVars, facVars, bootVars>>

\* the match of set_values on callArg, its STATE string read as a DeviceState
CallEchoState ==
  /\ callFn = "set_values::state" /\ callRet = <<>>
  /\ callRet' = <<ParseState(EchoState(callArg))>>
  /\ UNCHANGED <<callFn, callArg, cmdVars, senderDropped, evtVars, decVars, facVars, bootVars>>

\* ProtocolVersion
ZeroZeroThree == [t |-> "ZeroZeroThree", s |-> ""]
UnknownVersion(s) == [t |-> "Unknown", s |-> s]

\* faulty variant: "0.03" is not recognised
ProtocolFromStrUnknown(v) == UnknownVersion(v)

\* ProtocolVisitor::visit_str
ProtocolFromStr(v) == IF v = "0.03" THEN ZeroZeroThree ELSE UnknownVersion(v)

\* Serialize for ProtocolVersion (and Display, which writes the same string)
ProtocolToStr(p) == IF p.t = "ZeroZeroThree" THEN "0.03" ELSE p.s

\* the CMD tags of the recognised response kinds and the kind each names
KindTags ==
  [VERSION_RES |-> "Version", GET_CHANNEL_INFO_ALL_RES |-> "GetChannelInfoAll",
   ITEM_VALUE_RES |-> "ItemValue", ITEM_VALUE_SIGN_IN_RES |-> "ItemValueSignIn",
   PROJECT_LIST_RES |-> "ProjectList", ITEM_UPDATE |-> "ItemUpdate"]

\* de::ResponseKind of a CMD string: a recognised kind, or Unknown holding the string
KindFromStr(c) ==
  IF c \in DOMAIN KindTags THEN [t |-> KindTags[c], s |-> ""] ELSE [t |-> "Unknown", s |-> c]

\* Display of de::ResponseKind: the CMD string
KindToStr(k) ==
  IF k.t = "Unknown" THEN k.s ELSE CHOOSE c \in DOMAIN KindTags : KindTags[c] = k.t

\* the fields the derived Deserialize of each response struct requires
RequiredFields(k) ==
  CASE k = "Version" -> {"FIRMWARE", "HARDWARE", "ENET"}
    [] k = "GetChannelInfoAll" -> {"DEVICES"}
    [] k = "ItemValue" -> {}
    [] k = "ItemValueSignIn" -> {}
    [] k = "ProjectList" -> {"PROJECT_ID", "ITEMS", "LISTS"}
    [] k = "ItemUpdate" -> {"VALUES"}

\* <$t>::deserialize_response: the typed variant, or serde's missing-field error
DeserializeResponse(k, json) ==
  IF RequiredFields(k) \subseteq json.fields
  THEN [variant |-> k, kind |-> "", protocol |-> "", values |-> json]
  ELSE [variant |-> "Err", kind |-> "", protocol |-> "", values |-> json]

\* reconstruct
Reconstruct(k, p, json) ==
  [variant |-> "Unknown", kind |-> KindToStr(k), protocol |-> ProtocolToStr(p),
   values |-> json]

\* faulty variant: a pair that is not in the table is rejected
ResponseDeserializeRejects(k, p, json) ==
  IF k.t # "Unknown" /\ p.t = "ZeroZeroThree"
  THEN DeserializeResponse(k.t, json)
  ELSE [variant |-> "Err", kind |-> "", protocol |-> "", values |-> json]

\* Response::deserialize: match_response! over (kind, protocol)
ResponseDeserialize(k, p, json) ==
  IF k.t # "Unknown" /\ p.t = "ZeroZeroThree"
  THEN DeserializeResponse(k.t, json)
  ELSE Reconstruct(k, p, json)

\* the responses deserialized: a JSON object with its CMD, its PROTOCOL and the names
\* of its other fields
ResponseJsons ==
  [cmd : DOMAIN KindTags \cup {"BLOCK_LIST_RES", "FOO"},
   protocol : {"0.03", "0.04", ""},
   fields : {{}, {"FIRMWARE", "HARDWARE", "ENET"}, {"DEVICES"}, {"VALUES"},
             {"PROJECT_ID", "ITEMS", "LISTS"}}]

\* Deserialize for Response: peek CMD and PROTOCOL, then Response::deserialize on the
\* whole value
CallResponseDeserialize ==
  /\ callFn = "Response::deserialize" /\ callRet = <<>>
  /\ callRet' = <<ResponseDeserialize(KindFromStr(callArg.cmd),
                                      ProtocolFromStr(callArg.protocol), callArg)>>
  /\ UNCHANGED <<callFn, callArg, cmdVars, senderDropped, evtVars, decVars, facVars, bootVars>>

\* SetValue::On(d), SetValue::Off(d) with their ClickDuration
OnFor(d) == [t |-> "On", v |-> 0, click |-> d]
OffFor(d) == [t |-> "Off", v |-> 0, click |-> d]

\* one serialized field: a key with a string or a number
FieldStr(k, x) == [key |-> k, str |-> x, num |-> 0]
FieldNum(k, n) == [key |-> k, str |-> "", num |-> n]

\* faulty variant: a long click is serialized like a short one
SerializeSetValueShort(sv) ==
  CASE sv.t = "On" -> <<FieldStr("STATE", "ON")>>
    [] sv.t = "Off" -> <<FieldStr("STATE", "OFF")>>
    [] sv.t = "Dimm" -> <<FieldStr("STATE", "VALUE_DIMM"), FieldNum("VALUE", sv.v)>>
    [] sv.t = "Blinds" -> <<FieldStr("STATE", "VALUE_BLINDS"), FieldNum("VALUE", sv.v)>>

\* Serialize for SetValue: serialize_state, serialize_state_long, serialize_value
SerializeSetValue(sv) ==
  CASE sv.t = "On" /\ sv.click = "Short" -> <<FieldStr("STATE", "ON")>>
    [] sv.t = "On" /\ sv.click = "Long" ->
         <<FieldStr("STATE", "ON"), FieldStr("LONG_CLICK", "ON")>>
    [] sv.t = "Off" /\ sv.click = "Short" -> <<FieldStr("STATE", "OFF")>>
    [] sv.t = "Off" /\ sv.click = "Long" ->
         <<FieldStr("STATE", "OFF"), FieldStr("LONG_CLICK", "ON")>>
    [] sv.t = "Dimm" -> <<FieldStr("STATE", "VALUE_DIMM"), FieldNum("VALUE", sv.v)>>
    [] sv.t = "Blinds" -> <<FieldStr("STATE", "VALUE_BLINDS"), FieldNum("VALUE", sv.v)>>

\* the derived Serialize of ItemSetValue: the flattened value, then NUMBER
SerializeItemSetValue(item) ==
  SerializeSetValue(item.value) \o <<FieldNum("NUMBER", item.number)>>

\* the ItemSetValues serialized
ItemSetValues ==
  [number : {1, 3},
   value : {OnFor("Short"), OnFor("Long"), OffFor("Short"), OffFor("Long"),
            Dimm(0), Dimm(50), Blinds(0), Blinds(50)}]

\* ItemSetValue::serialize(callArg)
CallSerializeItemSetValue ==
  /\ callFn = "ItemSetValue::serialize" /\ callRet = <<>>
  /\ callRet' = <<SerializeItemSetValue(callArg)>>
  /\ UNCHANGED <<callFn, callArg, cmdVars, senderDropped, evtVars, decVars, facVars, bootVars>>

\* the ProtocolVersions serialized and read back
ProtocolVersions == {ZeroZeroThree} \cup {UnknownVersion(x) : x \in {"0.03", "0.04", "other", ""}}

\* callArg serialized, and the string deserialized again
CallProtocolRoundTrip ==
  /\ callFn = "ProtocolVersion::serde" /\ callRet = <<>>
  /\ callRet' = <<[ser |-> ProtocolToStr(callArg),
                   de |-> ProtocolFromStr(ProtocolToStr(callArg))]>>
  /\ UNCHANGED <<callFn, callArg, cmdVars, senderDropped, evtVars, decVars, facVars, bootVars>>

\* the bytes VALUE strings of an update entry are drawn from: '-' '1' '2' '5' '6'
ValueBytes == {45, 49, 50, 53, 54}

\* the STATE and VALUE strings of the entries handed to update_values_from_enet
EntryStates == {"ON", "OFF", "UNKNOWN", "UNDEFINED", "on", ""}
EntryValues == SeqsUpTo(ValueBytes, MaxValueLen)

\* the streams right after Device::new: nothing written yet
FreshStreams ==
  [state |-> [i \in Slots |-> "none"], bright |-> [i \in Slots |-> 0 - 1],
   seen |-> [i \in Slots |-> {}]]

\* update_values_from_enet(vec![callArg]) on the writers of the modelled project with
\* fresh streams. For a dimmer DeviceBrightness::from_str runs after the state was
\* written: with overflow checks it panics where the arithmetic overflows, without
\* them it wraps
CallUpdateValuesFromEnet ==
  /\ callFn = "update_values_from_enet" /\ callRet = <<>>
  /\ LET inv == Descs(ClientItems, ClientTypes, 0)
         parsed == WriterKind(inv, callArg.number) = "Dimmer"
     IN \E b \in {BrightnessFromStr(callArg.value), BrightnessFromStrWrapping(callArg.value)} :
          callRet' = <<IF parsed /\ b = BrightnessOverflow
                         THEN [panic |-> TRUE,
                               streams |-> ApplyEntryParsed(inv, FreshStreams, callArg,
                                                            BrightnessErr)]
                         ELSE [panic |-> FALSE,
                               streams |-> ApplyEntryParsed(inv, FreshStreams, callArg, b)]>>
  /\ UNCHANGED <<callFn, callArg, cmdVars, senderDropped, evtVars, decVars, facVars, bootVars>>

NextVal ==
  \/ CallBrightnessFromStr
  \/ CallUpdateValuesFromEnet
  \/ CallPartialCmp
  \/ CallDeviceStateFrom
  \/ CallEchoState
  \/ CallResponseDeserialize
  \/ CallSerializeItemSetValue
  \/ CallProtocolRoundTrip

InitCall ==
  /\ callRet = <<>>
  /\ \/ callFn = "DeviceBrightness::from_str" /\ callArg \in BrightnessStrings
     \/ callFn = "DeviceValue::partial_cmp"
        /\ callArg \in DeviceValues \X DeviceValues \X DeviceValues
     \/ callFn \in {"DeviceState::from", "set_values::state"} /\ callArg \in SetValues
     \/ callFn = "Response::deserialize" /\ callArg \in ResponseJsons
     \/ callFn = "ItemSetValue::serialize" /\ callArg \in ItemSetValues
     \/ callFn = "ProtocolVersion::serde" /\ callArg \in ProtocolVersions
     \/ callFn = "update_values_from_enet"
        /\ callArg \in [number : {0, 1}, state : EntryStates, value : EntryValues]

InitVal == InitCall /\ CmdOff /\ EvtOff /\ DecOff /\ FacOff /\ BootOff

SpecVal == InitVal /\ [][NextVal]_vars

----------------------------------------------------------------------------
(* Steps of the Command Task, recognised by what they change *)

\* handle_cmd took a Send message from the mailbox and returned Ok(())
CmdStep == cmdPc = "running" /\ cmdPc' = "running" /\ mailbox # <<>> /\ mailbox' = Tail(mailbox)
\* ... and wrote the request to the connection
WriteStep == CmdStep /\ last' = "send"
\* ... and conn.send failed
SendFailStep == CmdStep /\ last' = "send_failed"
\* the task consumed the head of the inbound stream (handle_enet)
EnetStep == cmdPc = "running" /\ conn # "none" /\ wire # <<>> /\ last' \in {"enet", "enet_err"}
              /\ (wire' = Tail(wire) \/ cmdPc' = "exited")
\* run() returned
ExitStep == cmdPc = "running" /\ cmdPc' = "exited"
\* the idle sleep dropped the socket
IdleCloseStep == cmdPc' = "running" /\ conn # "none" /\ conn' = "none"

\* request r is held by the task: queued in the mailbox or in the waiter slot
InMailbox(r) == \E i \in 1..Len(mailbox) : mailbox[i] = r
HeldByTask(r) == InMailbox(r) \/ response_listener = r

----------------------------------------------------------------------------
(* Claims about the Command Task, checked under Spec *)

\* C1: a request is written to the connection only when no earlier request's waiter is
\* still in the slot (its response was correlated or the waiter was failed).
C1_OneOutstanding == [][WriteStep => response_listener = 0]_vars

\* C2: a caller only ever receives the outcome of its own request: the response it is
\* given (as Ok or inside WrongResponse) is never the gateway's answer to another request.
C2_OwnOutcome ==
  \A r \in Reqs :
    ResultOf(r) \in {"Ok", "WrongResponse"} => chan[r].res.for \notin (Reqs \ {r})

\* C3: a response of another kind than the waiter awaits fails that waiter with
\* WrongResponse carrying the response, empties the slot, and reaches nobody else.
C3_WrongKind ==
  [][(EnetStep /\ Head(wire) # RecvErr /\ response_listener # 0
        /\ Head(wire).kind # ResKindOf(kind[response_listener]))
     => LET l == response_listener IN
          /\ rx[l] = "alive" => chan'[l] = WrongResponse(Head(wire))
          /\ response_listener' = 0
          /\ \A q \in Reqs \ {l} : chan'[q] = chan[q]
          /\ wire' = Tail(wire)]_vars

C3_Witness ==
  \E r \in Reqs : ResultOf(r) = "WrongResponse" /\ response_listener # r
                  /\ chan[r].res.kind # ResKindOf(kind[r])

\* C4: the step that fails a waiter with WrongResponse leaves the task running with its
\* connection, and afterwards a request whose matching response arrives gets it as Ok.
C4_RecoversAfterWrongKind ==
  [][/\ (\E r \in Reqs : chan[r].t # "WrongResponse" /\ chan'[r].t = "WrongResponse")
        => (cmdPc' = "running" /\ conn' = conn /\ conn' # "none" /\ response_listener' = 0)
     /\ (/\ EnetStep /\ Head(wire) # RecvErr /\ response_listener # 0
         /\ \E q \in Reqs : chan[q].t = "WrongResponse"
         /\ Head(wire).kind = ResKindOf(kind[response_listener])
         /\ rx[response_listener] = "alive")
        => chan'[response_listener] = OkOf(Head(wire))]_vars

C4_Witness ==
  \E r1, r2 \in Reqs :
    /\ r1 < r2 /\ kind[r1] = kind[r2]
    /\ ResultOf(r1) = "WrongResponse" /\ ResultOf(r2) = "Ok" /\ chan[r2].res.for = r2
    /\ cmdPc = "running" /\ conn # "none"

\* C5: when recv() fails the pending waiter is failed with ConnectionClosed, the socket
\* is dropped, and the task keeps running (Disconnected) to reopen on the next send.
C5_RecvFailureDisconnects ==
  [][(EnetStep /\ Head(wire) = RecvErr)
     => /\ cmdPc' = "running" /\ conn' = "none"
        /\ \A r \in Reqs : (response_listener = r /\ rx[r] = "alive")
                             => chan'[r] = ErrOf("ConnectionClosed")]_vars

\* C6: a failed write fails the request's waiter with the send error, empties the slot
\* and leaves the task running, so that a later request is attempted.
C6_SendFailure ==
  [][SendFailStep
     => LET r == Head(mailbox) IN
          /\ rx[r] = "alive" => chan'[r] = ErrOf("SendError")
          /\ response_listener' = 0
          /\ cmdPc' = "running" /\ conn' # "none"]_vars

C6_Witness ==
  \E r1, r2 \in Reqs :
    r1 < r2 /\ ResultOf(r1) = "SendError" /\ ResultOf(r2) = "Ok" /\ chan[r2].res.for = r2

\* C7: the socket is dropped by the idle sleep only after IdleSecs seconds without a
\* send or an inbound frame; every send and every inbound frame restarts the period;
\* a request found with no socket is written to a newly opened connection.
C7_IdleClose ==
  [][/\ IdleCloseStep => idle >= IdleSecs
     /\ (CmdStep \/ (EnetStep /\ cmdPc' = "running")) => idle' = 0
     /\ idle' >= IdleSecs => (idle' < IdleSecs + TickSecs /\ conn' # "none")
     /\ (WriteStep /\ conn = "none")
          => (conn' = "reopened" /\ gwIn' = <<Head(mailbox)>> /\ wire' = <<>>)
     /\ gwIn' # <<>> => conn' # "none"]_vars

\* the request before the idle close was answered on the first connection, the one after
\* it on a reopened one
C7_Witness ==
  \E r1, r2 \in Reqs :
    /\ r1 < r2 /\ ResultOf(r1) = "Ok" /\ ResultOf(r2) = "Ok"
    /\ chan[r1].res = [kind |-> ResKindOf(kind[r1]), for |-> r1, conn |-> "initial"]
    /\ chan[r2].res = [kind |-> ResKindOf(kind[r2]), for |-> r2, conn |-> "reopened"]

\* C9: when the task terminates, every request it still holds (queued or in the slot)
\* whose caller is waiting completes with ConnectionClosed or NoResponse, and no
\* channel is left pending once the task is gone.
C9_ExitFailsWaiters ==
  [][/\ ExitStep => \A r \in Reqs :
          (HeldByTask(r) /\ rx[r] = "alive")
            => OutcomeOf(chan'[r]) \in {"ConnectionClosed", "NoResponse"}
     /\ cmdPc' = "exited" => \A r \in Reqs : chan'[r] # Pending]_vars

\* a caller whose request sat in the mailbox, and one whose request sat in the slot,
\* when the task ended
C9_Witness ==
  /\ cmdPc = "exited"
  /\ \E r \in Reqs : ResultOf(r) \in {"ConnectionClosed", "NoResponse"} /\ last # "closed"

----------------------------------------------------------------------------
(* Claims about the dropped client, checked under SpecClient *)

\* C8: once the EnetClient is dropped each task ends at its mailbox: the Command Task by
\* the None of its mailbox receive once the queue is drained, the Event Task by the
\* None branch of its select, whatever state it was in when the drop happened.
C8_TasksExitOnDrop ==
  [][senderDropped
     => /\ (evtPc \notin EvtDone /\ evtPc' \in EvtDone)
             => (evtPc = "steady" /\ evtPc' = "exited")
        /\ (ExitStep /\ mailbox = <<>> /\ wire = <<>>) => last' = "closed"]_vars

----------------------------------------------------------------------------
(* Claims about the framing codec, checked under SpecDec *)

IsPrefix(a, b) == Len(a) <= Len(b) /\ SubSeq(b, 1, Len(a)) = a

\* C10: whatever the chunking, decode returns the encoded frames in order, none lost,
\* merged or turned into a decoder error: what was returned is always a prefix of the
\* frames, and all of them once the whole stream was appended and decode returned None.
C10_FramingRoundTrip ==
  /\ IsPrefix(out, frames)
  /\ (stream = <<>> /\ decPc = "read") => out = frames

\* the proper prefixes of the delimiter: \r, \r\n, \r\n\r
ProperPrefixes == {SubSeq(DELIMETER, 1, k) : k \in 1..(Len(DELIMETER) - 1)}

\* the next call of decode, on buffer b with cursor ni, returns the frame `body`
DecodeReturns(b, ni, body) ==
  FindAt(b, ni) >= 0 /\ Parse(SubSeq(b, 1, FindAt(b, ni))) = body

\* C11: decode on a buffer holding one frame body and a proper prefix of the delimiter
\* returns None and keeps the buffer; once the rest of the delimiter (or more) has been
\* appended, the next decode returns exactly that frame.
C11_BoundarySafety ==
  [][\A body \in Bodies, p \in ProperPrefixes :
       /\ (decPc = "decode" /\ buf = body \o p)
            => (decPc' = "read" /\ out' = out /\ buf' = buf)
       /\ (decPc = "read" /\ buf = body \o p /\ decPc' = "decode"
             /\ IsPrefix(body \o DELIMETER, buf'))
            => DecodeReturns(buf', next_index', body)]_vars

----------------------------------------------------------------------------
(* Claims about set_values and the Event Task *)

\* set_values call r returns in this step, its command having completed with Ok
AckedReturnStep(r) ==
  callerPc = r /\ callerPc' = 0 /\ rx'[r] = "done" /\ OutcomeOf(chan[r]) = "Ok"

\* the synthetic pairs of call r are posted to the Event Task in this step
PostStep(r) ==
  /\ Len(evtMailbox') = Len(evtMailbox) + 1
  /\ evtMailbox'[Len(evtMailbox')].call = r

\* a step of the Event Task that gives up its connection (or fails to get one) on a
\* failed connect, send or receive
EvtFailureStep ==
  /\ evtPc \in {"main", "steady"} /\ evtPc' \in {"backoff", "panicked"}
  /\ evtLast' # "underflow"

\* every known device named in call r has had the commanded state on its state stream
EchoObserved(r) ==
  \A i \in 1..Len(svVals[r]) :
    svVals[r][i].number \in WriterKeys(inventory)
      => ParseState(EchoState(svVals[r][i].value)) \in seen[svVals[r][i].number]

\* C12: after set_values has returned Ok, the commanded state reaches the state stream
\* of every device named in the call; so the Event Task never ends with the state of a
\* successful call not written.
C12_SetValuesEcho ==
  evtPc \in EvtDone => \A r \in Reqs : SetValuesResult(r) = "Ok" => EchoObserved(r)

\* C13: the synthetic pairs of a call are posted only when its caller holds the
\* gateway's ITEM_VALUE_RES for that same call; a call that returns an error posts
\* nothing.
C13_EchoAfterAck ==
  [][\A r \in Reqs :
       /\ PostStep(r) => /\ rx[r] = "alive"
                         /\ chan[r].t = "Ok"
                         /\ chan[r].res.kind = "ItemValue"
                         /\ chan[r].res.for = r
       /\ (SetValuesResult(r) = "none" /\ SetValuesResult(r)' \notin {"none", "Ok"})
            => evtMailbox' = evtMailbox]_vars

\* C14: when the command of a set_values call has succeeded, the call returns
\* ConnectionClosed and posts nothing if the Event Task's mailbox is closed (the task is
\* gone); otherwise the pairs are queued in that same step, whatever the task is doing,
\* and the call returns Ok.
C14_PostOrConnectionClosed ==
  [][\A r \in Reqs :
       AckedReturnStep(r)
         => IF evtPc \in EvtDone
              THEN svResult'[r] = "ConnectionClosed" /\ evtMailbox' = evtMailbox
              ELSE /\ svResult'[r] = "Ok"
                   /\ evtMailbox' = Append(evtMailbox,
                                           [call |-> r, pairs |-> Echo(svVals[r])])]_vars

\* a call whose command the gateway acknowledged and that returned ConnectionClosed
\* because the Event Task had gone after a failed receive
C14_Witness ==
  \E r \in Reqs : svResult[r] = "ConnectionClosed" /\ chan[r].t = "Ok"
                  /\ evtLast = "recv_failed"

C17_DispatcherWritesOnlyNamed ==
  [][\A values \in UpdateBatches :
       EvtRecvUpdate(values)
         => \A i \in Slots :
              /\ (i \notin WriterKeys(inventory)
                    \/ \A k \in 1..Len(values) : values[k].number # i)
                   => (stState'[i] = stState[i] /\ stBright'[i] = stBright[i]
                         /\ seen'[i] = seen[i])
              /\ (i \in WriterKeys(inventory) /\ WriterKind(inventory, i) = "Binary")
                   => stBright'[i] = stBright[i]]_vars

\* an update naming the dimmer and an unknown number was applied: the dimmer's
\* brightness stream was written, nothing else was
C17_Witness ==
  /\ evtLast = "received" /\ stBright[1] = BrightnessMin
  /\ stState = [i \in Slots |-> "none"]

----------------------------------------------------------------------------
(* Claims about EnetClient::new, checked under SpecNew *)

\* position idx of the project holds a device: its channel type is 1 and the item is a
\* programmable Binaer, a Dimmer or a Jalousie
IsDevicePosition(idx) ==
  /\ idx < Len(items) /\ idx < Len(channel_types) /\ channel_types[idx + 1] = 1
  /\ \/ items[idx + 1].type = "Binaer" /\ items[idx + 1].programmable
     \/ items[idx + 1].type \in {"Dimmer", "Jalousie"}

\* the device kind of a project item variant
KindOfType(t) ==
  CASE t = "Binaer" -> "Binary" [] t = "Dimmer" -> "Dimmer" [] t = "Jalousie" -> "Blinds"
    [] OTHER -> "none"

\* inv holds exactly one entry for every device position, with that position as its
\* index and the item's kind, and nothing else
InventoryOf(inv) ==
  /\ \A idx \in Slots :
       Cardinality({j \in 1..Len(inv) : inv[j].index = idx})
         = (IF IsDevicePosition(idx) THEN 1 ELSE 0)
  /\ \A j \in 1..Len(inv) :
       /\ inv[j].index \in Slots
       /\ inv[j].kind = KindOfType(items[inv[j].index + 1].type)

\* C18: new() performs open, get_version, get_channel_info, get_project, build, start
\* of the Event Task in this order; a step that fails ends new() with an error, and
\* whenever new() has not completed every earlier step the Event Task is not started.
C18_BootOrder ==
  /\ IsPrefix(bootLog, BootOrder)
  /\ bootPc = "failed" => (bootLog # <<>> /\ evtPc = "off" /\ inventory = <<>>)
  /\ evtPc # "off" => (bootPc = "done" /\ bootLog = BootOrder)
  /\ bootPc \notin {"failed", "panicked", "done"} => bootPc = BootOrder[Len(bootLog) + 1]

\* new() failed at get_project: three steps were made, the Event Task was not started
C18_Witness ==
  bootPc = "failed" /\ bootLog = SubSeq(BootOrder, 1, 4) /\ evtPc = "off"

\* C19: the build step yields the inventory with exactly one entry for each position
\* whose channel type is 1 and whose item is a programmable Binaer, a Dimmer or a
\* Jalousie, each entry carrying its position as index and the item's kind.
C19_Inventory ==
  [][(bootPc = "build" /\ bootPc' # "build")
       => (bootPc' = "events" /\ InventoryOf(inventory'))]_vars

\* C20: a project with a Jalousie on a channel of type 1 is accepted: the build step
\* completes and the inventory holds an entry of kind Blinds at that position.
C20_BlindsAccepted ==
  [][\A idx \in Slots :
       (bootPc = "build" /\ bootPc' # "build" /\ IsDevicePosition(idx)
          /\ items[idx + 1].type = "Jalousie")
         => /\ bootPc' = "events"
            /\ \E j \in 1..Len(inventory') :
                 inventory'[j].index = idx /\ inventory'[j].kind = "Blinds"]_vars

----------------------------------------------------------------------------
(* The value types *)

\* the byte is an ASCII digit
IsDigit(b) == b >= 48 /\ b <= 57

RECURSIVE DecimalValue(_)
\* the decimal value of a string of digits, as a mathematical integer
DecimalValue(s) ==
  IF s = <<>> THEN 0 ELSE 10 * DecimalValue(SubSeq(s, 1, Len(s) - 1)) + (s[Len(s)] - 48)

\* C21: DeviceBrightness::from_str returns the decimal value of the string when the
\* string has 1 to 3 ASCII digits and that value is at most 100, and an error for every
\* other string; the arithmetic never overflows
C21_BrightnessParse ==
  (callFn = "DeviceBrightness::from_str" /\ callRet # <<>>) =>
    callRet[1] = IF /\ Len(callArg) \in 1..3
                    /\ \A i \in 1..Len(callArg) : IsDigit(callArg[i])
                    /\ DecimalValue(callArg) <= BrightnessMax
                 THEN DecimalValue(callArg)
                 ELSE BrightnessErr

\* the order the values have: Off below every On, On by brightness, AllOff below AllOn,
\* every value equal to itself, nothing else comparable
Ordered(a, b) ==
  CASE a = b -> "Equal"
    [] a.t = "Off" /\ b.t = "On" -> "Less"
    [] a.t = "On" /\ b.t = "Off" -> "Greater"
    [] a.t = "On" /\ b.t = "On" -> IF a.v < b.v THEN "Less" ELSE "Greater"
    [] a.t = "AllOff" /\ b.t = "AllOn" -> "Less"
    [] a.t = "AllOn" /\ b.t = "AllOff" -> "Greater"
    [] OTHER -> "None"

\* C22: partial_cmp orders Off below On(k), On(j) and On(k) as j and k, AllOff below
\* AllOn, leaves Undefined comparable only with itself and Off/On(_) incomparable with
\* AllOff/AllOn; it returns Equal exactly for equal values and is antisymmetric and
\* transitive
C22_PartialOrder ==
  (callFn = "DeviceValue::partial_cmp" /\ callRet # <<>>) =>
    LET a == callArg[1]  b == callArg[2]  c == callArg[3]  r == callRet[1]
    IN /\ r.ab = Ordered(a, b) /\ r.ba = Ordered(b, a)
       /\ r.bc = Ordered(b, c) /\ r.ac = Ordered(a, c)
       /\ (r.ab = "Equal") <=> (a = b)
       /\ (r.ab = "Less") <=> (r.ba = "Greater")
       /\ (r.ab = "None") <=> (r.ba = "None")
       /\ (r.ab \in {"Less", "Equal"} /\ r.bc \in {"Less", "Equal"})
            => r.ac = (IF r.ab = "Equal" /\ r.bc = "Equal" THEN "Equal" ELSE "Less")

\* Off, On(0) and On(100) were compared: a chain of two strict steps
C22_Witness ==
  /\ callFn = "DeviceValue::partial_cmp" /\ callRet # <<>>
  /\ callArg = <<ValueOff, ValueOn(BrightnessMin), ValueOn(BrightnessMax)>>
  /\ callRet[1].ab = "Less" /\ callRet[1].bc = "Less" /\ callRet[1].ac = "Less"

\* C23: the state derived from a SetValue is On for On(_), Off for Off(_), Off for
\* Dimm(0) and Blinds(0), On for every other Dimm(v) and Blinds(v); every SetValue,
\* Blinds included, yields a state
C23_SyntheticState ==
  (callFn \in {"DeviceState::from", "set_values::state"} /\ callRet # <<>>) =>
    callRet[1] = IF callArg.t = "On" THEN "On"
                 ELSE IF callArg.t = "Off" THEN "Off"
                 ELSE IF callArg.v = 0 THEN "Off" ELSE "On"

\* the (CMD, PROTOCOL) pair of the response is in the dispatch table
Recognized(json) == json.cmd \in DOMAIN KindTags /\ json.protocol = "0.03"

\* C24: a response whose (CMD, PROTOCOL) pair is not in the dispatch table, the kind
\* being unknown or the protocol not "0.03", deserializes to Response::Unknown holding
\* the kind string, the protocol string and the raw value; a response with a recognised
\* pair (and the body of its kind) deserializes to the typed variant of that kind
C24_UnknownPreserved ==
  (callFn = "Response::deserialize" /\ callRet # <<>>) =>
    IF Recognized(callArg)
    THEN RequiredFields(KindTags[callArg.cmd]) \subseteq callArg.fields
           => callRet[1].variant = KindTags[callArg.cmd]
    ELSE callRet[1] = [variant |-> "Unknown", kind |-> callArg.cmd,
                       protocol |-> callArg.protocol, values |-> callArg]

\* a VERSION_RES of protocol "0.04" came out as Unknown
C24_Witness ==
  /\ callFn = "Response::deserialize" /\ callRet # <<>>
  /\ callArg.cmd = "VERSION_RES" /\ callArg.protocol = "0.04"
  /\ callRet[1].variant = "Unknown" /\ callRet[1].kind = "VERSION_RES"

\* the keys of a serialized map, in order
Keys(m) == [i \in 1..Len(m) |-> m[i].key]

\* C25: an ItemSetValue serializes to STATE, then LONG_CLICK or VALUE when present,
\* then NUMBER: On/Off with a short click give STATE "ON"/"OFF" and NUMBER only, with
\* a long click LONG_CLICK "ON" as well; Dimm(v) gives STATE "VALUE_DIMM" and VALUE v,
\* Blinds(v) gives STATE "VALUE_BLINDS" and VALUE v
C25_SetValueWireShape ==
  (callFn = "ItemSetValue::serialize" /\ callRet # <<>>) =>
    LET m == callRet[1]
        sv == callArg.value
        n == Len(m)
    IN /\ m[1].key = "STATE" /\ m[n] = [key |-> "NUMBER", str |-> "", num |-> callArg.number]
       /\ sv.t \in {"On", "Off"} =>
            /\ m[1].str = (IF sv.t = "On" THEN "ON" ELSE "OFF")
            /\ sv.click = "Short" => Keys(m) = <<"STATE", "NUMBER">>
            /\ sv.click = "Long" =>
                 Keys(m) = <<"STATE", "LONG_CLICK", "NUMBER">> /\ m[2].str = "ON"
       /\ sv.t \in {"Dimm", "Blinds"} =>
            /\ m[1].str = (IF sv.t = "Dimm" THEN "VALUE_DIMM" ELSE "VALUE_BLINDS")
            /\ Keys(m) = <<"STATE", "VALUE", "NUMBER">> /\ m[2].num = sv.v

\* set_value(3, On(Long)) was serialized: STATE "ON", LONG_CLICK "ON", NUMBER 3
C25_Witness ==
  /\ callFn = "ItemSetValue::serialize"
  /\ callArg = [number |-> 3, value |-> OnFor("Long")]
  /\ callRet = << <<[key |-> "STATE", str |-> "ON", num |-> 0],
                    [key |-> "LONG_CLICK", str |-> "ON", num |-> 0],
                    [key |-> "NUMBER", str |-> "", num |-> 3]>> >>

\* the version serialized to the string the claim names and came back as itself
RoundTrips(p, r) ==
  /\ r.ser = (IF p.t = "ZeroZeroThree" THEN "0.03" ELSE p.s)
  /\ r.de = p

\* C26: ZeroZeroThree serializes to "0.03" and "0.03" deserializes to ZeroZeroThree; for
\* every string s, Unknown(s) serializes to s and s deserializes back to Unknown(s)
C26_VersionRoundTrip ==
  (callFn = "ProtocolVersion::serde" /\ callRet # <<>>) => RoundTrips(callArg, callRet[1])

\* C26, amended: the same for every string s other than "0.03"; Unknown("0.03")
\* serializes to "0.03", which deserializes to ZeroZeroThree
C26_VersionRoundTripOtherStrings ==
  (callFn = "ProtocolVersion::serde" /\ callRet # <<>>) =>
    IF callArg = UnknownVersion("0.03")
    THEN callRet[1] = [ser |-> "0.03", de |-> ZeroZeroThree]
    ELSE RoundTrips(callArg, callRet[1])

\* Unknown("other") went through "other" and came back
C26_Witness ==
  /\ callFn = "ProtocolVersion::serde" /\ callArg = UnknownVersion("other")
  /\ callRet = <<[ser |-> "other", de |-> UnknownVersion("other")]>>

----------------------------------------------------------------------------
(* The Event Task's connection cycle *)

\* the Event Task received an ITEM_UPDATE holding `values` on its connection
UpdateStep(values) == EvtRecvUpdate(values)

\* the Event Task received an ITEM_UPDATE or an ITEM_VALUE_SIGN_IN_RES
ReceiptStep ==
  evtPc = "steady" /\ evtPc' = "steady" /\ evtFrames' = evtFrames - 1

\* a connection attempt got as far as the steady loop
SignedInStep == evtPc = "main" /\ evtPc' = "steady"

\* C27: every connection attempt that reaches the steady loop, the first and each one
\* after a reconnect, has opened a connection and sent ITEM_VALUE_SIGN_IN_REQ for the
\* channel indices of all inventory entries, so every update is processed on a
\* connection that is signed in for them; a failed connect or send leads, after the
\* next backoff interval, to main() opening a connection again; an ITEM_UPDATE
\* received on a later connection is written to the streams of the devices it names
C27_SignInEveryAttempt ==
  [][/\ SignedInStep
          => /\ evtConn' = evtConn + 1 /\ elapsed' = 0
             /\ subscribed' = {inventory[i].index : i \in 1..Len(inventory)}
     /\ \A values \in UpdateBatches :
          UpdateStep(values)
            => /\ subscribed = {inventory[i].index : i \in 1..Len(inventory)}
               /\ evtConn > 1 =>
                    \A k \in 1..Len(values) :
                      (values[k].number \in subscribed /\ ParseState(values[k].state) # "Err")
                        => ParseState(values[k].state) \in seen'[values[k].number]
     /\ (evtPc = "main" /\ evtPc' # "main" /\ ~SignedInStep /\ boLeft > 0)
          => evtPc' = "backoff" /\ subscribed' = {}
     /\ (evtPc = "backoff" /\ evtPc' # "backoff")
          => evtPc' = "main" /\ subscribed' = {} /\ evtConn' = evtConn]_vars

\* the first connection was lost before anything arrived on it, and the first frame of
\* the second connection, an ITEM_UPDATE, set the brightness of the dimmer
C27_Witness ==
  /\ evtPc = "steady" /\ evtConn = 2 /\ subscribed = {0, 1}
  /\ evtLast = "received" /\ evtFrames = MaxEvtFrames - 1
  /\ stBright[1] = 50 /\ "On" \in seen[1]

\* C28: on a connection that is up, the sign-in request is sent again when (and only
\* when) 5 minutes have passed since the last one, for the same items, and the period
\* starts again; handling an inbound frame or a mailbox message leaves the period
\* running, and the task in its steady loop with the period over is never stopped by
\* anything but a failure of the connection or the closing of its mailbox
C28_ResubscribeTimer ==
  [][/\ (evtPc = "steady" /\ evtLast' = "resubscribed" /\ evtLast # "resubscribed")
          => /\ elapsed >= ResubscribeSecs /\ elapsed' = 0
             /\ subscribed' = subscribed /\ evtPc' = "steady"
     /\ (evtPc = "steady" /\ evtPc' = "steady"
           /\ (evtFrames' # evtFrames \/ evtMailbox' # evtMailbox))
          => elapsed' >= elapsed /\ subscribed' = subscribed
     /\ (evtPc = "steady" /\ evtPc' = "panicked") => (EvtFailureStep /\ boLeft = 0)]_vars

C30_BackoffReset ==
  [][/\ ReceiptStep => boLeft' = MaxBackoff
     /\ (SignedInStep \/ evtLast' \in {"resubscribed", "handled_msg", "woke"})
          => boLeft' = boLeft
     /\ (EvtFailureStep /\ boLeft > 0) => boLeft' = boLeft - 1
     /\ boLeft' > boLeft => ReceiptStep]_vars

\* after two failed attempts the task is signed in with the backoff still two
\* intervals down
C30_Witness ==
  /\ evtPc = "steady" /\ evtLast = "signed_in" /\ boLeft = MaxBackoff - 2
  /\ evtFrames = MaxEvtFrames
----------------------------------------------------------------------------
(* The dispatcher of the Event Task *)

\* the string is a valid brightness: 1 to 3 digits with a value of at most 100
ValidBrightness(s) ==
  /\ Len(s) \in 1..3 /\ \A i \in 1..Len(s) : IsDigit(s[i])
  /\ DecimalValue(s) <= BrightnessMax

\* what an entry must leave in the brightness stream of a dimmer that held nothing
ExpectedBrightness(s) ==
  IF ValidBrightness(s) THEN DecimalValue(s)
  ELSE IF s = MinusOne THEN 0
  ELSE 0 - 1

\* C31: for an entry of a binary device the state stream is written iff STATE is one
\* of ON, OFF, UNKNOWN, UNDEFINED and nothing else is written; for a dimmer the state
\* stream is written iff STATE parses and, independently, the brightness stream is
\* written with VALUE when VALUE is a valid brightness, with 0 when VALUE is "-1", and
\* not at all otherwise.
C31_DispatcherPerKind ==
  (callFn = "update_values_from_enet" /\ callRet # <<>>) =>
    LET n == callArg.number
        S == callRet[1].streams
        parses == callArg.state \in {"ON", "OFF", "UNKNOWN", "UNDEFINED"}
    IN /\ ~callRet[1].panic
       /\ (S.seen[n] # {}) <=> parses
       /\ parses => S.state[n] = ParseState(callArg.state)
       /\ n = 0 => S.bright[n] = 0 - 1
       /\ n = 1 => S.bright[n] = ExpectedBrightness(callArg.value)
       /\ \A i \in Slots \ {n} :
            S.state[i] = "none" /\ S.bright[i] = 0 - 1 /\ S.seen[i] = {}

\* the state carried by the last pair of pairs that names number i
LastStateFor(pairs, i) ==
  LET k == CHOOSE j \in 1..Len(pairs) :
             pairs[j].number = i /\ \A m \in (j + 1)..Len(pairs) : pairs[m].number # i
  IN pairs[k].state

\* C32: handling a SetStates message writes, for each pair whose number is in the
\* inventory, the state stream of that device and nothing else: no brightness stream
\* is written, the streams of a device no pair names stay as they were, and a pair
\* with an unknown number is skipped.
C32_SetStatesWritesStateOnly ==
  [][EvtHandleMsg =>
       LET pairs == Head(evtMailbox).pairs
       IN /\ stBright' = stBright
          /\ \A i \in Slots :
               IF i \in WriterKeys(inventory) /\ \E k \in 1..Len(pairs) : pairs[k].number = i
                 THEN /\ stState'[i] = LastStateFor(pairs, i)
                      /\ seen'[i] = seen[i] \cup {pairs[k].state :
                                                   k \in {j \in 1..Len(pairs) : pairs[j].number = i}}
                 ELSE stState'[i] = stState[i] /\ seen'[i] = seen[i]]_vars

\* a SetStates message naming the binary device and the dimmer was handled before any
\* update arrived: both state streams hold the commanded state, no brightness stream
\* holds a value
C32_Witness ==
  /\ evtLast = "handled_msg" /\ evtMailbox = <<>>
  /\ stState[0] = "On" /\ stState[1] = "Off" /\ stState[2] = "none"
  /\ \A i \in Slots : stBright[i] = 0 - 1

\* the numbers of the inventory that the pairs of a SetStates message name
Affected(pairs) == {pairs[k].number : k \in 1..Len(pairs)} \cap WriterKeys(inventory)

\* the update values report on every device the pairs affect
UpdateFor(values, pairs) ==
  /\ Affected(pairs) # {}
  /\ Affected(pairs) \subseteq {values[k].number : k \in 1..Len(values)}

\* C33: for one set_values call, each affected state stream holds the same value after
\* the synthetic echo and the gateway's ITEM_UPDATE for the call were both applied,
\* whichever the Event Task handled first. Handled last, the echo leaves the
\* synthetic state in each affected stream (C32); so the value is the same in both
\* orders exactly when the update, handled after the echo, leaves that state too.
C33_EchoUpdateOrder ==
  [][\A values \in UpdateBatches :
       (/\ EvtRecvUpdate(values)
        /\ svResult[1] = "Ok" /\ evtMailbox = <<>>
        /\ UpdateFor(values, Echo(svVals[1])))
         => \A i \in Affected(Echo(svVals[1])) :
              stState'[i] = LastStateFor(Echo(svVals[1]), i)]_vars

----------------------------------------------------------------------------
(* The decoder's cursor and the frame it consumes, checked under SpecDec *)

\* the length (0..3) of the longest suffix of b that is a proper prefix of the
\* delimiter
LongestPrefixSuffix(b) ==
  LET ks == {k \in 0..(Len(DELIMETER) - 1) :
               k <= Len(b) /\ SubSeq(b, Len(b) - k + 1, Len(b)) = SubSeq(DELIMETER, 1, k)}
  IN CHOOSE k \in ks : \A j \in ks : j <= k

\* decode ran and returned None
DecodeNoneStep == decPc = "decode" /\ decPc' = "read"

\* C34: whenever decode returns None, the cursor afterwards is len - k, k being the
\* length of the longest suffix of the buffer that is a proper prefix of \r\n\r\n.
C34_CursorRewind ==
  [][DecodeNoneStep => next_index' = Len(buf) - LongestPrefixSuffix(buf)]_vars

\* the 0-based offsets at which the delimiter occurs in b
DelimiterOffsets(b) ==
  {i \in 0..(Len(b) - Len(DELIMETER)) : SubSeq(b, i + 1, i + Len(DELIMETER)) = DELIMETER}

\* the offset of the first delimiter in b
FirstDelimiter(b) == CHOOSE i \in DelimiterOffsets(b) : \A j \in DelimiterOffsets(b) : i <= j

\* C35: on a buffer that contains a delimiter decode removes exactly the bytes up to
\* and including the first delimiter, leaves the later bytes as they are, resets the
\* cursor to 0 and returns the parse of the removed bytes without the delimiter, a
\* decoder error when that parse fails; on a buffer without a delimiter it returns
\* None and removes nothing.
C35_ConsumesOneFrame ==
  [][decPc = "decode" =>
       IF DelimiterOffsets(buf) # {}
         THEN LET m == FirstDelimiter(buf)
              IN /\ buf' = SubSeq(buf, m + Len(DELIMETER) + 1, Len(buf))
                 /\ next_index' = 0
                 /\ out' = Append(out, Parse(SubSeq(buf, 1, m)))
                 /\ decPc' = (IF Parse(SubSeq(buf, 1, m)) = DecoderError
                                THEN "failed" ELSE "decode")
         ELSE decPc' = "read" /\ buf' = buf /\ out' = out]_vars

----------------------------------------------------------------------------
(* The Command Task: responses without a waiter, the idle close, the lazy reconnect *)

\* C36: a response that arrives on the command connection while the waiter slot is
\* empty is dropped: it is consumed, no caller receives it, the connection, the slot
\* and the mailbox stay as they were and the task keeps running.
C36_NoWaiterDropped ==
  [][(HandleEnet /\ response_listener = 0 /\ Head(wire) # RecvErr)
       => /\ wire' = Tail(wire) /\ chan' = chan
          /\ conn' = conn /\ response_listener' = 0 /\ mailbox' = mailbox
          /\ cmdPc' = "running"]_vars

\* the task consumed a frame the gateway sent unasked before any request was made:
\* it is still running on its first connection with an empty slot
C36_Witness ==
  /\ last = "enet" /\ pushes = 1 /\ wire = <<>>
  /\ \A r \in Reqs : rx[r] = "none"
  /\ cmdPc = "running" /\ conn = "initial" /\ response_listener = 0

\* C37: whenever the Command Task waits for its next event with its socket dropped
\* (conn is None), the waiter slot is empty: the idle close leaves no caller's waiter
\* pending on a connection that no longer exists.
C37_NoWaiterWithoutConn ==
  (cmdPc = "running" /\ conn = "none") => response_listener = 0

----------------------------------------------------------------------------
(* The inventory's keys, checked under SpecNew *)

\* C38: for every inventory entry the key under which the Event Task stores its
\* writer (the position in project.items) is the number the device handle reports
\* (the item's NUMBER), so that an update for number n reaches the streams of the
\* device EnetClient::device(n) returns.
C38_KeyIsNumber ==
  \A j \in 1..Len(inventory) : inventory[j].index = inventory[j].number

----------------------------------------------------------------------------
(* The wait time of the steady loop, checked under SpecEvt *)

\* C39: whenever the steady loop computes its wait time, at most 5 minutes have
\* passed since the last subscription, whatever mailbox messages, inbound frames and
\* timer expiries came before: the subtraction never underflows and the task never
\* crashes in that loop.
C39_WaitTimeNeverUnderflows ==
  /\ evtPc = "steady" => elapsed <= ResubscribeSecs
  /\ evtLast # "underflow"

----------------------------------------------------------------------------
(* The failed lazy reconnect, checked under Spec *)

\* handle_cmd took a request while conn was None and Connection::new failed
ReconnectFailStep ==
  cmdPc = "running" /\ conn = "none" /\ mailbox # <<>> /\ last' = "connect_failed"

\* a request is made after the task ended on a failed reconnect, and fails at once
\* with ConnectionClosed
RefusedAfterReconnectFailure ==
  \A r \in Reqs :
    (cmdPc = "exited" /\ last = "connect_failed" /\ rx[r] = "none" /\ rx'[r] # "none")
      => (rx'[r] = "done" /\ OutcomeOf(chan'[r]) = "ConnectionClosed")

\* C40: when the lazy reconnect for a send request fails the Command Task exits, the
\* caller of that request completes with NoResponse, every later request completes
\* with ConnectionClosed, and no caller is left waiting.
C40_ReconnectFailure ==
  [][/\ ReconnectFailStep =>
          /\ cmdPc' = "exited"
          /\ rx[Head(mailbox)] = "alive" => OutcomeOf(chan'[Head(mailbox)]) = "NoResponse"
          /\ \A k \in 2..Len(mailbox) :
               rx[mailbox[k]] = "alive" => OutcomeOf(chan'[mailbox[k]]) = "ConnectionClosed"
          /\ \A r \in Reqs : chan'[r] # Pending
     /\ RefusedAfterReconnectFailure]_vars

\* C40 (amended): ... the caller of that request completes with NoResponse, and so
\* does the caller of a request already queued behind it; every request made after
\* the exit completes with ConnectionClosed, and no caller is left waiting.
C40_ReconnectFailureQueued ==
  [][/\ ReconnectFailStep =>
          /\ cmdPc' = "exited"
          /\ \A k \in 1..Len(mailbox) :
               rx[mailbox[k]] = "alive" => OutcomeOf(chan'[mailbox[k]]) = "NoResponse"
          /\ \A r \in Reqs : chan'[r] # Pending
     /\ RefusedAfterReconnectFailure]_vars

\* the reconnect for request 1 failed while its caller waited: the caller got
\* NoResponse, and the request made after the exit was refused with ConnectionClosed
C40_Witness ==
  /\ cmdPc = "exited" /\ last = "connect_failed"
  /\ ResultOf(1) = "NoResponse" /\ ResultOf(2) = "ConnectionClosed"

====
